---- MODULE Spec2Model ----
(***************************************************************************)
(* Model of the governance account decoder and the vote transaction       *)
(* builder of app-server/main.py.                                          *)
(*                                                                         *)
(* Bytes are integers 0..255, byte strings are sequences of bytes, text    *)
(* strings are sequences of Unicode code points, and a Python Optional[int]*)
(* is <<>> (None) or <<v>>.  Offsets are Python offsets (0-based).  An     *)
(* unsigned 64-bit value is kept at full width as four 16-bit limbs, least *)
(* significant first.                                                      *)
(***************************************************************************)
EXTENDS Integers, Sequences, FiniteSets, TLC

\* ------------------------------------------------------------------------
\* Bounds of the model
\* ------------------------------------------------------------------------
MaxNameLen == 2
MaxDescLen == 1
MaxTrailing == 2

\* ------------------------------------------------------------------------
\* Text literals of main.py, as code points
\* ------------------------------------------------------------------------
\* "Parsed Proposal"
PARSED_PROPOSAL == <<80, 97, 114, 115, 101, 100, 32, 80, 114, 111, 112, 111, 115, 97, 108>>
\* "https://example.com/proposal"
EXAMPLE_LINK == <<104, 116, 116, 112, 115, 58, 47, 47, 101, 120, 97, 109, 112, 108, 101, 46, 99, 111, 109, 47, 112, 114, 111, 112, 111, 115, 97, 108>>
\* base58 alphabet "123456789ABCDEFGHJKLMNPQRSTUVWXYZabcdefghijkmnopqrstuvwxyz"
ALPHABET == <<49, 50, 51, 52, 53, 54, 55, 56, 57, 65, 66, 67, 68, 69, 70, 71, 72, 74, 75, 76, 77, 78, 80, 81, 82, 83, 84, 85, 86, 87, 88, 89, 90, 97, 98, 99, 100, 101, 102, 103, 104, 105, 106, 107, 109, 110, 111, 112, 113, 114, 115, 116, 117, 118, 119, 120, 121, 122>>
PROPOSAL_V2_DISCRIMINATOR == <<0, 0, 0, 0, 0, 0, 0, 1>>

None == <<>>
Some(v) == <<v>>

\* ------------------------------------------------------------------------
\* Python / struct / codec primitives used by the decoder
\* ------------------------------------------------------------------------
Min(a, b) == IF a < b THEN a ELSE b

\* data[lo:hi] : a Python slice never raises, it clamps to the buffer
Slice(d, lo, hi) ==
  IF lo >= Min(hi, Len(d)) THEN <<>> ELSE SubSeq(d, lo + 1, Min(hi, Len(d)))

\* little-endian unsigned value of a byte string
RECURSIVE LittleEndian(_)
LittleEndian(b) ==
  IF b = <<>> THEN 0
  ELSE LET high == LittleEndian(Tail(b))
       IN  IF high = 0 THEN Head(b) ELSE Head(b) + 256 * high

\* struct.unpack_from(fmt, data, offset) needs `width` bytes at offset,
\* otherwise it raises struct.error
\* (mutant: the field is read with int.from_bytes(data[offset:offset+n]),
\* which never raises)
UnpackFits_Unchecked(width, d, offset) == TRUE
UnpackFits(width, d, offset) == offset + width <= Len(d)
unpack_from(width, d, offset) == LittleEndian(Slice(d, offset, offset + width))
\* struct.unpack_from('<Q', data, offset)
unpack_from_Q(d, offset) ==
  [i \in 1..4 |-> LittleEndian(Slice(d, offset + 2 * (i - 1), offset + 2 * i))]
\* the 64-bit value of a non-negative integer below 2^31
U64(n) == <<n % 65536, n \div 65536, 0, 0>>

\* bytes.decode('utf-8', errors='ignore')
IsContinuation(b) == b >= 128 /\ b <= 191
SequenceLength(b) ==
  IF b < 128 THEN 1
  ELSE IF b >= 194 /\ b <= 223 THEN 2
  ELSE IF b >= 224 /\ b <= 239 THEN 3
  ELSE IF b >= 240 /\ b <= 244 THEN 4
  ELSE 0
SecondByteOk(lead, b) ==
  /\ b >= (IF lead = 224 THEN 160 ELSE IF lead = 240 THEN 144 ELSE 128)
  /\ b <= (IF lead = 237 THEN 159 ELSE IF lead = 244 THEN 143 ELSE 191)
\* number of well-formed continuation bytes that follow the lead byte at i
RECURSIVE ValidTail(_, _, _, _)
ValidTail(s, i, n, k) ==
  IF k + 1 >= n \/ i + k + 1 > Len(s) THEN k
  ELSE IF k = 0 /\ ~SecondByteOk(s[i], s[i + 1]) THEN k
  ELSE IF k > 0 /\ ~IsContinuation(s[i + k + 1]) THEN k
  ELSE ValidTail(s, i, n, k + 1)
CodePoint(s, i, n) ==
  IF n = 1 THEN s[i]
  ELSE IF n = 2 THEN (s[i] - 192) * 64 + (s[i + 1] - 128)
  ELSE IF n = 3 THEN (s[i] - 224) * 4096 + (s[i + 1] - 128) * 64 + (s[i + 2] - 128)
  ELSE (s[i] - 240) * 262144 + (s[i + 1] - 128) * 4096
         + (s[i + 2] - 128) * 64 + (s[i + 3] - 128)
\* what the 'ignore' error handler contributes for an ill-formed sequence
\* (mutant: errors='replace', one U+FFFD per ill-formed sequence)
IgnoreHandler_Replace == <<65533>>
IgnoreHandler == <<>>
RECURSIVE DecodeFrom(_, _)
DecodeFrom(s, i) ==
  IF i > Len(s) THEN <<>>
  ELSE LET n == SequenceLength(s[i])
           k == IF n = 0 THEN 0 ELSE ValidTail(s, i, n, 0)
       IN  IF n > 0 /\ k = n - 1
           THEN <<CodePoint(s, i, n)>> \o DecodeFrom(s, i + n)
           ELSE IgnoreHandler \o DecodeFrom(s, i + k + 1)
decode_utf8_ignore(s) == DecodeFrom(s, 1)

\* base58.b58encode(v): leading zero bytes become '1', the rest is the
\* big-endian integer written in base 58
RECURSIVE lstrip0(_)
lstrip0(v) == IF v # <<>> /\ v[1] = 0 THEN lstrip0(Tail(v)) ELSE v
\* long division of the big-endian byte string v by 58: <<quotient, remainder>>
RECURSIVE DivMod58(_, _, _, _)
DivMod58(v, i, q, r) ==
  IF i > Len(v) THEN <<q, r>>
  ELSE LET cur == r * 256 + v[i]
       IN  DivMod58(v, i + 1, Append(q, cur \div 58), cur % 58)
RECURSIVE b58encode_int(_)
b58encode_int(v) ==
  IF v = <<>> THEN <<>>
  ELSE LET qr == DivMod58(v, 1, <<>>, 0)
       IN  Append(b58encode_int(lstrip0(qr[1])), ALPHABET[qr[2] + 1])
b58encode(v) ==
  LET s == lstrip0(v)
  IN  [i \in 1..(Len(v) - Len(s)) |-> ALPHABET[1]] \o b58encode_int(s)

\* ------------------------------------------------------------------------
\* parse_proposal_v2_account
\* ------------------------------------------------------------------------
\* state_map.get(state_value, "Unknown")
state_map ==
  <<"Draft", "SigningOff", "Voting", "Succeeded", "Executing", "Completed",
    "Cancelled", "Defeated", "ExecutingWithErrors">>
\* (mutant: the table is indexed from 1)
StateName_OffByOne(state_value) ==
  IF state_value \in 1..9 THEN state_map[state_value] ELSE "Unknown"
StateName(state_value) ==
  IF state_value \in 0..8 THEN state_map[state_value + 1] ELSE "Unknown"

\* the guard `len(data) > offset + 8` of the three timestamp reads
TimestampFits(d, offset) == Len(d) > offset + 8
\* (mutant: the offset moves past draft_at only when draft_at was read)
AfterDraftAt_Conditional(d, offset) ==
  offset + (IF TimestampFits(d, offset) THEN 8 ELSE 0)
\* line 223: the offset moves past draft_at whether or not it was read
AfterDraftAt(d, offset) == offset + 8

\* `... .decode('utf-8', errors='ignore') if desc_len > 0 else ""`
DescriptionLink(d, offset, desc_len) ==
  IF desc_len > 0 THEN decode_utf8_ignore(Slice(d, offset, offset + desc_len))
  ELSE <<>>
\* `offset += desc_len` : the offset of the state byte
\* (mutant: an empty description still consumes one byte)
StateOffset_EmptyConsumes(offset, desc_len) ==
  offset + (IF desc_len > 0 THEN desc_len ELSE 1)
StateOffset(offset, desc_len) == offset + desc_len

\* lines 163-167: the buffer holds the 8 discriminator bytes, which are
\* skipped without being compared
\* (mutant: the discriminator must be PROPOSAL_V2_DISCRIMINATOR)
TooShort_OrOtherAccount(d) ==
  Len(d) < 8 \/ Slice(d, 0, 8) # PROPOSAL_V2_DISCRIMINATOR
TooShort(d) == Len(d) < 8

\* The try block (lines 163-227): the local variables when the return
\* statement is reached (exc = "none"), or the exception class raised.
ParseLocals(d) ==
  IF TooShort(d) THEN [exc |-> "ValueError"]
  ELSE IF ~UnpackFits(1, d, 8) THEN [exc |-> "struct.error"]
  ELSE
  LET account_type == unpack_from(1, d, 8)
      off_mint == 8 + 1
      off_realm == off_mint + 32
      off_governance == off_realm + 32
      off_owner == off_governance + 32
      off_seed == off_owner + 32
      off_name_len == off_seed + 32
  IN
  IF ~UnpackFits(4, d, off_name_len) THEN [exc |-> "struct.error"]
  ELSE
  LET name_len == unpack_from(4, d, off_name_len)
      off_name == off_name_len + 4
      off_desc_len == off_name + name_len
  IN
  IF ~UnpackFits(4, d, off_desc_len) THEN [exc |-> "struct.error"]
  ELSE
  LET desc_len == unpack_from(4, d, off_desc_len)
      off_desc == off_desc_len + 4
      off_state == StateOffset(off_desc, desc_len)
  IN
  IF ~UnpackFits(1, d, off_state) THEN [exc |-> "struct.error"]
  ELSE
  LET off_draft == off_state + 1
      off_signing == AfterDraftAt(d, off_draft)
      off_voting == off_signing + (IF TimestampFits(d, off_signing) THEN 8 ELSE 0)
      off_end == off_voting + (IF TimestampFits(d, off_voting) THEN 8 ELSE 0)
  IN
  [ exc |-> "none",
    account_type |-> account_type,
    governing_token_mint |-> Slice(d, off_mint, off_mint + 32),
    realm |-> Slice(d, off_realm, off_realm + 32),
    governance |-> Slice(d, off_governance, off_governance + 32),
    proposal_owner |-> Slice(d, off_owner, off_owner + 32),
    proposal_seed |-> Slice(d, off_seed, off_seed + 32),
    name_len |-> name_len,
    name |-> decode_utf8_ignore(Slice(d, off_name, off_name + name_len)),
    desc_len |-> desc_len,
    off_desc |-> off_desc,
    description_link |-> DescriptionLink(d, off_desc, desc_len),
    off_state |-> off_state,
    state |-> StateName(unpack_from(1, d, off_state)),
    off_draft |-> off_draft,
    draft_at |-> IF TimestampFits(d, off_draft)
                 THEN unpack_from_Q(d, off_draft) ELSE U64(0),
    off_signing |-> off_signing,
    signing_off_at |-> IF TimestampFits(d, off_signing)
                       THEN Some(unpack_from_Q(d, off_signing)) ELSE None,
    off_voting |-> off_voting,
    voting_at |-> IF TimestampFits(d, off_voting)
                  THEN Some(unpack_from_Q(d, off_voting)) ELSE None,
    offset |-> off_end ]

\* the dict of the return statement (lines 229-241)
DecodedRecord(l) ==
  [ account_type |-> l.account_type,
    governing_token_mint |-> b58encode(l.governing_token_mint),
    realm |-> b58encode(l.realm),
    governance |-> b58encode(l.governance),
    proposal_owner |-> b58encode(l.proposal_owner),
    name |-> l.name,
    description_link |-> l.description_link,
    state |-> l.state,
    draft_at |-> l.draft_at,
    signing_off_at |-> l.signing_off_at,
    voting_at |-> l.voting_at ]

\* the fallback dict of the except clause (lines 246-253); now is
\* int(datetime.now().timestamp())
SubstituteRecord(now) ==
  [ name |-> PARSED_PROPOSAL,
    description_link |-> EXAMPLE_LINK,
    state |-> "Voting",
    draft_at |-> U64(now),
    signing_off_at |-> None,
    voting_at |-> Some(U64(now)) ]

\* `except Exception` (line 243): struct.error and ValueError are both
\* subclasses of Exception
\* (mutant: `except ValueError`)
ExceptException_ValueErrorOnly(exc) == exc = "ValueError"
ExceptException(exc) == exc \in {"ValueError", "struct.error"}

\* outcome of one call: the record returned, or the exception that leaves
\* the function
parse_proposal_v2_account(d, now) ==
  LET l == ParseLocals(d)
  IN  IF l.exc = "none"
      THEN [kind |-> "decoded", value |-> DecodedRecord(l), locals |-> l]
      ELSE IF ExceptException(l.exc)
      THEN [kind |-> "substitute", value |-> SubstituteRecord(now), locals |-> l]
      ELSE [kind |-> "raised", locals |-> l]

\* ------------------------------------------------------------------------
\* Account buffers handed to the decoder: the layout written field by
\* field from known values (the inverse of the decoder), then cut short
\* or given an oversized length field.
\* ------------------------------------------------------------------------
\* struct.pack('<I', n)
pack(width, n) == [i \in 1..width |-> IF i > 4 THEN 0
                                      ELSE (n \div (256 ^ (i - 1))) % 256]
\* struct.pack('<Q', v) of a 64-bit value
pack_Q(v) == [i \in 1..8 |-> IF i % 2 = 1 THEN v[(i + 1) \div 2] % 256
                                          ELSE v[i \div 2] \div 256]
\* str.encode('utf-8') of one code point below U+0800, and of a text
EncodeCodePoint(c) ==
  IF c < 128 THEN <<c>> ELSE <<192 + (c \div 64), 128 + (c % 64)>>
RECURSIVE encode_utf8(_)
encode_utf8(t) ==
  IF t = <<>> THEN <<>> ELSE EncodeCodePoint(Head(t)) \o encode_utf8(Tail(t))

\* texts of at most n code points over 'A' and U+00E9
RECURSIVE Texts(_)
Texts(n) ==
  IF n = 0 THEN {<<>>}
  ELSE Texts(n - 1) \cup {Append(t, c) : t \in Texts(n - 1), c \in {65, 233}}

\* five distinct 32-byte keys: family 1 has 31 leading zero bytes,
\* family 2 has none
Key(family, k) ==
  [i \in 1..32 |-> IF family = 1 THEN (IF i = 32 THEN k ELSE 0)
                   ELSE (k * 37 + i * 11) % 256]
Keys(family) == [k \in 1..5 |-> Key(family, k)]

StateBytes == 0..255
\* the largest 64-bit value
MAX_U64 == <<65535, 65535, 65535, 65535>>
Timestamps ==
  { <<U64(0), U64(0), U64(0)>>,
    <<U64(1700000000), U64(1700000060), U64(1700003600)>>,
    <<MAX_U64, MAX_U64, MAX_U64>> }
Nows == {1750000000, 1750000001}

BaseKnown ==
  [ discriminator |-> PROPOSAL_V2_DISCRIMINATOR,
    account_type |-> 14,
    keys |-> Keys(1),
    name |-> <<65>>,
    name_invalid |-> <<>>,
    description_link |-> <<>>,
    desc_invalid |-> <<>>,
    state_byte |-> 2,
    timestamps |-> <<U64(1700000000), U64(1700000060), U64(1700003600)>>,
    name_len_excess |-> 0,
    desc_len_excess |-> 0,
    trailing |-> 0 ]

\* the bytes of the name and of the description link: an ill-formed
\* sequence, if any, then the text
NameBytes(k) == k.name_invalid \o encode_utf8(k.name)
DescBytes(k) == k.desc_invalid \o encode_utf8(k.description_link)
\* the bytes that follow the name length field, and the description
\* length field, in the complete buffer
AfterDescLen(k) ==
  DescBytes(k) \o <<k.state_byte>>
    \o pack_Q(k.timestamps[1]) \o pack_Q(k.timestamps[2])
    \o pack_Q(k.timestamps[3]) \o [i \in 1..k.trailing |-> 7]
NameLenField(k) == Len(NameBytes(k)) + k.name_len_excess
DescLenField(k) == Len(DescBytes(k)) + k.desc_len_excess
AfterNameLen(k) ==
  NameBytes(k) \o pack(4, DescLenField(k)) \o AfterDescLen(k)
Encode(k) ==
  k.discriminator \o <<k.account_type>>
    \o k.keys[1] \o k.keys[2] \o k.keys[3] \o k.keys[4] \o k.keys[5]
    \o pack(4, NameLenField(k)) \o AfterNameLen(k)
\* offset one past the state byte in the complete buffer
StateEnd(k) ==
  8 + 1 + 5 * 32 + 4 + Len(NameBytes(k))
    + 4 + Len(DescBytes(k)) + 1
WellFormed(k) == k.name_len_excess = 0 /\ k.desc_len_excess = 0

\* ill-formed UTF-8: a byte that starts no sequence, a lone continuation
\* byte, and two sequences cut short
InvalidSequences == {<<255>>, <<128>>, <<195>>, <<226, 130>>}
\* complete buffers, every field varied
CompleteKnowns ==
  {[BaseKnown EXCEPT !.name = n, !.name_invalid = ni,
                     !.description_link = dl, !.desc_invalid = di,
                     !.trailing = 1] :
     n \in Texts(1), dl \in Texts(1),
     ni \in InvalidSequences \cup {<<>>}, di \in InvalidSequences \cup {<<>>}}
  \cup
  {[BaseKnown EXCEPT !.name = n, !.description_link = dl, !.trailing = t] :
     n \in Texts(MaxNameLen), dl \in Texts(MaxDescLen), t \in 0..MaxTrailing}
  \cup
  {[BaseKnown EXCEPT !.state_byte = sb, !.timestamps = ts, !.trailing = t] :
     sb \in StateBytes, ts \in Timestamps, t \in 0..MaxTrailing}
  \cup
  {[BaseKnown EXCEPT !.discriminator = dc, !.account_type = at,
                     !.keys = Keys(f), !.trailing = t] :
     dc \in {PROPOSAL_V2_DISCRIMINATOR, <<9, 9, 9, 9, 9, 9, 9, 9>>},
     at \in {0, 14}, f \in {1, 2}, t \in 0..MaxTrailing}
\* buffers cut short at every length
TruncatedKnowns ==
  {[BaseKnown EXCEPT !.name = n, !.description_link = dl] :
     n \in Texts(1), dl \in Texts(1)}
\* buffers whose name or description length field exceeds what remains
OversizedKnowns ==
  {[BaseKnown EXCEPT !.name = n, !.description_link = dl, !.trailing = t,
                     !.name_len_excess = Len(AfterNameLen(
                        [BaseKnown EXCEPT !.name = n, !.description_link = dl,
                                          !.trailing = t])) + e] :
     n \in Texts(1), dl \in Texts(1), t \in 0..MaxTrailing, e \in {1, 60000}}
  \cup
  {[BaseKnown EXCEPT !.name = n, !.description_link = dl, !.trailing = t,
                     !.desc_len_excess = Len(AfterDescLen(
                        [BaseKnown EXCEPT !.name = n, !.description_link = dl,
                                          !.trailing = t])) + e] :
     n \in Texts(1), dl \in Texts(1), t \in 0..MaxTrailing, e \in {1, 60000}}

VARIABLES
  known, data, result,          \* one call of parse_proposal_v2_account
  call, returned,               \* one call of create_cast_vote_instruction
  request, pc, locals, blockhash_calls, events, response,
                                \* one prepare-vote request
  fetch_address, fetch_pc, fetch_locals, fetched,
                                \* one call of fetch_proposal_data
  slots, solana_client,         \* requests served concurrently
  analysis, dao                 \* one analyze request, one DAO request
decodeVars == <<known, data, result>>
callVars == <<call, returned>>
voteVars == <<request, pc, locals, blockhash_calls, events, response>>
fetchVars == <<fetch_address, fetch_pc, fetch_locals, fetched>>
concVars == <<slots, solana_client>>
apiVars == <<analysis, dao>>
vars == <<known, data, result, call, returned,
          request, pc, locals, blockhash_calls, events, response,
          fetch_address, fetch_pc, fetch_locals, fetched,
          slots, solana_client, analysis, dao>>

Pending == [kind |-> "pending"]
NoRequest == [kind |-> "none"]
\* nothing of the other operations is in progress
IdleDecode == known = NoRequest /\ data = <<>> /\ result = NoRequest
IdleCall == call = NoRequest /\ returned = NoRequest
IdleVote ==
  /\ request = NoRequest /\ pc = "idle" /\ locals = NoRequest
  /\ blockhash_calls = 0 /\ events = <<>> /\ response = NoRequest
IdleConc == slots = <<>> /\ solana_client = NoRequest
Idle == [pc |-> "idle"]
IdleApi == analysis = Idle /\ dao = Idle
IdleFetch ==
  /\ fetch_address = <<>> /\ fetch_pc = "idle"
  /\ fetch_locals = NoRequest /\ fetched = NoRequest

InitDecode ==
  /\ \/ /\ known \in CompleteKnowns \cup OversizedKnowns
        /\ data = Encode(known)
     \/ /\ known \in TruncatedKnowns
        /\ \E cut \in 0..Len(Encode(known)) : data = SubSeq(Encode(known), 1, cut)
  /\ result = Pending
  /\ IdleCall /\ IdleVote /\ IdleFetch /\ IdleConc /\ IdleApi

\* one call parse_proposal_v2_account(data)
Parse ==
  /\ result = Pending
  /\ \E now \in Nows : result' = parse_proposal_v2_account(data, now)
  /\ UNCHANGED <<known, data, callVars, voteVars, fetchVars, concVars, apiVars>>

NextDecode == Parse
SpecDecode == InitDecode /\ [][NextDecode]_vars

\* ------------------------------------------------------------------------
\* Vote transaction builder: primitives
\* ------------------------------------------------------------------------
\* "GovER5Lthms3bLBqWub97yVrMmEogzX7xNjdXpPPCVZw"
GOVERNANCE_PROGRAM_ADDRESS ==
  <<71, 111, 118, 69, 82, 53, 76, 116, 104, 109, 115, 51, 98, 76, 66, 113,
  87, 117, 98, 57, 55, 121, 86, 114, 77, 109, 69, 111, 103, 122, 88, 55,
  120, 78, 106, 100, 88, 112, 80, 80, 67, 86, 90, 119>>
\* "approve"
APPROVE ==
  <<97, 112, 112, 114, 111, 118, 101>>
\* "deny"
DENY ==
  <<100, 101, 110, 121>>
\* "7xKXtg2CW87d97TXJSDpbD5jBkheTqA83TZRuJosgAsU"
TEST_PROPOSAL_ADDRESS ==
  <<55, 120, 75, 88, 116, 103, 50, 67, 87, 56, 55, 100, 57, 55, 84, 88,
  74, 83, 68, 112, 98, 68, 53, 106, 66, 107, 104, 101, 84, 113, 65, 56,
  51, 84, 90, 82, 117, 74, 111, 115, 103, 65, 115, 85>>
\* "9WzDXwBbmkg8ZTbNMqUxvQRAyrZzDsGYdLVL9zYtAWWM"
TEST_WALLET_ADDRESS ==
  <<57, 87, 122, 68, 88, 119, 66, 98, 109, 107, 103, 56, 90, 84, 98, 78,
  77, 113, 85, 120, 118, 81, 82, 65, 121, 114, 90, 122, 68, 115, 71, 89,
  100, 76, 86, 76, 57, 122, 89, 116, 65, 87, 87, 77>>
\* "invalid_choice"
INVALID_CHOICE ==
  <<105, 110, 118, 97, 108, 105, 100, 95, 99, 104, 111, 105, 99, 101>>

\* str.lower() on ASCII text
Lower(t) == [i \in 1..Len(t) |-> IF t[i] \in 65..90 THEN t[i] + 32 ELSE t[i]]

\* index of a character in the base58 alphabet, -1 when it is not in it
Base58Index(c) ==
  IF \E i \in 1..58 : ALPHABET[i] = c
  THEN (CHOOSE i \in 1..58 : ALPHABET[i] = c) - 1 ELSE -1
\* v * 58 + carry on a big-endian byte string, from the last byte up
RECURSIVE MulAdd58(_, _, _)
MulAdd58(v, i, carry) ==
  IF i = 0 THEN (IF carry = 0 THEN v ELSE <<carry>> \o v)
  ELSE LET cur == v[i] * 58 + carry
       IN  MulAdd58([v EXCEPT ![i] = cur % 256], i - 1, cur \div 256)
\* the integer written by t, as bytes; acc holds the value of the first
\* i - 1 characters and never outgrows the output buffer, which is as long
\* as the text
RECURSIVE b58decode_int(_, _, _)
b58decode_int(t, i, acc) ==
  IF i > Len(t) \/ Len(acc) > Len(t) THEN acc
  ELSE b58decode_int(t, i + 1, MulAdd58(acc, Len(acc), Base58Index(t[i])))
RECURSIVE LeadingOnes(_, _)
LeadingOnes(t, i) ==
  IF i <= Len(t) /\ t[i] = ALPHABET[1] THEN LeadingOnes(t, i + 1) ELSE i - 1
\* base58 decoding of a text over the alphabet
b58decode(t) ==
  [i \in 1..LeadingOnes(t, 1) |-> 0] \o lstrip0(b58decode_int(t, 1, <<>>))

\* Pubkey.from_string(s): the 32 bytes, or a raised error when s has a
\* character outside the alphabet or does not decode to 32 bytes
PubkeyParses(t) ==
  /\ Len(t) <= 44
  /\ \A i \in 1..Len(t) : Base58Index(t[i]) >= 0
  /\ Len(b58decode(t)) = 32
Pubkey_from_string(t) == b58decode(t)

SPL_GOVERNANCE_PROGRAM_ID == Pubkey_from_string(GOVERNANCE_PROGRAM_ADDRESS)

\* ------------------------------------------------------------------------
\* create_cast_vote_instruction
\* ------------------------------------------------------------------------
\* (mutant: the choice is compared without lower())
InstructionData_NoLower(vote_choice) ==
  <<1>> \o (IF vote_choice = APPROVE THEN <<0>> ELSE <<1>>)
\* lines 278-282
InstructionData(vote_choice) ==
  <<1>> \o (IF Lower(vote_choice) = APPROVE THEN <<0>> ELSE <<1>>)

AccountMeta(pubkey, is_signer, is_writable) ==
  [pubkey |-> pubkey, is_signer |-> is_signer, is_writable |-> is_writable]

\* what `except Exception` of lines 295-297 raises
CastVoteFailure ==
  [kind |-> "HTTPException", status_code |-> 500,
   detail |-> "Failed to create vote instruction"]
\* the instruction returned, or the HTTPException raised by the except
\* clause when an address does not parse
create_cast_vote_instruction(proposal_address, voter_wallet, vote_choice) ==
  IF ~PubkeyParses(proposal_address) \/ ~PubkeyParses(voter_wallet)
  THEN CastVoteFailure
  ELSE [kind |-> "Instruction",
        program_id |-> SPL_GOVERNANCE_PROGRAM_ID,
        accounts |->
          << AccountMeta(Pubkey_from_string(proposal_address), FALSE, TRUE),
             AccountMeta(Pubkey_from_string(voter_wallet), TRUE, FALSE) >>,
        data |-> InstructionData(vote_choice)]

\* ------------------------------------------------------------------------
\* Properties of the decoder
\* ------------------------------------------------------------------------
Returned == result # Pending
IsSubstitute(r) ==
  /\ r.kind = "substitute"
  /\ r.value.name = PARSED_PROPOSAL
  /\ r.value.description_link = EXAMPLE_LINK
  /\ r.value.state = "Voting"
\* the state names of the account layout, written out
ExpectedState(b) ==
  CASE b = 0 -> "Draft" [] b = 1 -> "SigningOff" [] b = 2 -> "Voting"
    [] b = 3 -> "Succeeded" [] b = 4 -> "Executing" [] b = 5 -> "Completed"
    [] b = 6 -> "Cancelled" [] b = 7 -> "Defeated"
    [] b = 8 -> "ExecutingWithErrors" [] OTHER -> "Unknown"
NameEnd(k) == 8 + 1 + 5 * 32 + 4 + Len(NameBytes(k))
DescEnd(k) == NameEnd(k) + 4 + Len(DescBytes(k))
\* data is the buffer of `known` cut right after one of its fields
EarlyBoundaries(k) == {8, 9, 41, 73, 105, 137, 169, NameEnd(k), DescEnd(k)}
LateBoundaries(k) == {StateEnd(k), StateEnd(k) + 8, StateEnd(k) + 16}
CutAt(offsets) == WellFormed(known) /\ Len(data) \in offsets
\* a length field larger than the bytes that follow it
NameLenExceeds ==
  Len(data) >= 173 /\ NameLenField(known) > Len(data) - 173
DescLenExceeds ==
  /\ known.name_len_excess = 0
  /\ Len(data) >= NameEnd(known) + 4
  /\ DescLenField(known) > Len(data) - (NameEnd(known) + 4)
\* data holds the whole layout of `known` up to and including the state byte
HasStateByte == WellFormed(known) /\ Len(data) >= StateEnd(known)
\* bytes that follow the state byte
AfterState == Len(data) - StateEnd(known)

\* C1: for every byte sequence (empty, shorter than 8 bytes, cut anywhere,
\* with oversized length fields) the call returns a record: no exception
\* leaves parse_proposal_v2_account.
C1_NeverRaises == Returned => result.kind \in {"decoded", "substitute"}
C1_Witness ==
  /\ Returned /\ result.kind = "substitute"
  /\ result.locals.exc = "struct.error" /\ NameLenExceeds

\* C2 (as stated): a buffer shorter than 8 bytes, or cut after any field
\* of the layout - the three timestamps' boundaries included -, or with a
\* length field exceeding what remains, yields the substitute record.
C2_SubstituteAtEveryBoundary ==
  (Returned /\ (\/ Len(data) < 8
                \/ CutAt(EarlyBoundaries(known) \cup LateBoundaries(known))
                \/ NameLenExceeds \/ DescLenExceeds))
    => IsSubstitute(result)
\* C2 (amended): the substitute record is returned for a buffer shorter than
\* 8 bytes, cut after the discriminator, account_type, a key, the name or
\* the description_link, or with a length field exceeding what remains; a
\* buffer cut after the state byte, draft_at or signing_off_at is decoded.
C2_SubstituteBeforeState ==
  /\ (Returned /\ (\/ Len(data) < 8
                   \/ CutAt(EarlyBoundaries(known))
                   \/ NameLenExceeds \/ DescLenExceeds))
       => IsSubstitute(result)
  /\ (Returned /\ CutAt(LateBoundaries(known))) => result.kind = "decoded"
C2_Witness ==
  /\ Returned /\ CutAt({DescEnd(known)}) /\ IsSubstitute(result)

\* C3: round trip - the buffer that is exactly the layout of the known
\* values, with no trailing byte, decodes to exactly those values.
C3_RoundTrip ==
  (Returned /\ WellFormed(known) /\ data = Encode(known) /\ known.trailing = 0)
    => /\ result.kind = "decoded"
       /\ result.value.account_type = known.account_type
       /\ result.value.governing_token_mint = b58encode(known.keys[1])
       /\ result.value.realm = b58encode(known.keys[2])
       /\ result.value.governance = b58encode(known.keys[3])
       /\ result.value.proposal_owner = b58encode(known.keys[4])
       /\ result.value.name = known.name
       /\ result.value.description_link = known.description_link
       /\ result.value.state = ExpectedState(known.state_byte)
       /\ result.value.draft_at = known.timestamps[1]
       /\ result.value.signing_off_at = Some(known.timestamps[2])
       /\ result.value.voting_at = Some(known.timestamps[3])
       /\ "proposal_seed" \in DOMAIN result.value
       /\ result.value.proposal_seed = b58encode(known.keys[5])

\* C4: in a successful decode the state byte 0..8 maps to its name and
\* every byte 9..255 maps to "Unknown", the record still being decoded.
C4_StateNames ==
  (Returned /\ HasStateByte)
    => /\ result.kind = "decoded"
       /\ result.value.state = ExpectedState(known.state_byte)
C4_Witness ==
  /\ Returned /\ HasStateByte /\ known.state_byte = 255
  /\ result.kind = "decoded" /\ result.value.state = "Unknown"

\* C5: a description length field of 0 yields the empty description and
\* consumes nothing: the state byte is the byte right after that field.
C5_EmptyDescription ==
  (Returned /\ HasStateByte /\ DescBytes(known) = <<>>)
    => /\ result.kind = "decoded"
       /\ result.locals.desc_len = 0
       /\ result.value.description_link = <<>>
       /\ result.locals.off_state = NameEnd(known) + 4
       /\ result.value.state = ExpectedState(known.state_byte)
C5_Witness ==
  /\ Returned /\ HasStateByte /\ DescBytes(known) = <<>>
  /\ known.state_byte = 7 /\ result.kind = "decoded"
  /\ result.value.state = "Defeated"

\* C6: draft_at is the 8-byte value after the state byte whenever at least
\* 8 bytes follow the state byte (exactly 8 included), and 0 otherwise.
C6_DraftAt ==
  (Returned /\ HasStateByte)
    => result.value.draft_at =
         (IF AfterState >= 8 THEN known.timestamps[1] ELSE U64(0))

\* C7: signing_off_at and voting_at are read whenever at least 8 bytes
\* remain at their position (exactly 8 included), are None otherwise, and
\* an absent timestamp does not advance the read position.
C7_OptionalTimestamps ==
  (Returned /\ HasStateByte)
    => LET l == result.locals
           so == Len(data) - l.off_signing >= 8
           va == Len(data) - l.off_voting >= 8
       IN  /\ l.off_signing = StateEnd(known) + 8
           /\ result.value.signing_off_at =
                (IF so THEN Some(known.timestamps[2]) ELSE None)
           /\ l.off_voting = l.off_signing + (IF so THEN 8 ELSE 0)
           /\ result.value.voting_at =
                (IF va THEN Some(known.timestamps[3]) ELSE None)
           /\ l.offset = l.off_voting + (IF va THEN 8 ELSE 0)

\* ------------------------------------------------------------------------
\* Direct calls of create_cast_vote_instruction
\* ------------------------------------------------------------------------
\* "Approve", "DENY", "yes", "not-an-address", "7xKXtg2C"
APPROVE_CAPITALISED == <<65, 112, 112, 114, 111, 118, 101>>
DENY_UPPER == <<68, 69, 78, 89>>
YES == <<121, 101, 115>>
NOT_AN_ADDRESS == <<110, 111, 116, 45, 97, 110, 45, 97, 100, 100, 114, 101, 115, 115>>
SHORT_ADDRESS == <<55, 120, 75, 88, 116, 103, 50, 67>>

VoteChoices == {APPROVE, DENY, APPROVE_CAPITALISED, DENY_UPPER, YES, INVALID_CHOICE}
ProposalAddresses ==
  {TEST_PROPOSAL_ADDRESS, TEST_WALLET_ADDRESS, GOVERNANCE_PROGRAM_ADDRESS,
   NOT_AN_ADDRESS, SHORT_ADDRESS}
WalletAddresses == {TEST_WALLET_ADDRESS, TEST_PROPOSAL_ADDRESS, NOT_AN_ADDRESS, SHORT_ADDRESS}

InitCall ==
  /\ call \in [proposal_address : ProposalAddresses,
                voter_wallet : WalletAddresses,
                vote_choice : VoteChoices]
  /\ returned = Pending
  /\ IdleDecode /\ IdleVote /\ IdleFetch /\ IdleConc /\ IdleApi

CreateCastVoteInstruction ==
  /\ call # NoRequest /\ returned = Pending
  /\ returned' = create_cast_vote_instruction(
                    call.proposal_address, call.voter_wallet, call.vote_choice)
  /\ UNCHANGED <<call, decodeVars, voteVars, fetchVars, concVars, apiVars>>

NextCall == CreateCastVoteInstruction
SpecCall == InitCall /\ [][NextCall]_vars

\* the 32 bytes of the three parsable addresses, decoded by hand
ExpectedKey(address) ==
  CASE address = TEST_PROPOSAL_ADDRESS ->
         <<103, 82, 5, 92, 32, 179, 233, 216, 116, 102, 86, 221, 247, 56, 85,
           80, 127, 135, 171, 109, 135, 82, 62, 76, 118, 167, 250, 54, 9, 106,
           153, 235>>
    [] address = TEST_WALLET_ADDRESS ->
         <<126, 140, 8, 135, 96, 191, 222, 29, 221, 207, 50, 193, 127, 32, 155,
           130, 66, 238, 82, 170, 241, 49, 250, 205, 136, 208, 234, 44, 109,
           11, 6, 242>>
    [] address = GOVERNANCE_PROGRAM_ADDRESS ->
         <<234, 228, 53, 189, 238, 117, 183, 52, 205, 89, 62, 207, 154, 48, 75,
           128, 36, 186, 40, 152, 103, 183, 105, 177, 249, 60, 167, 187, 184,
           142, 70, 254>>
ParsableAddresses ==
  {TEST_PROPOSAL_ADDRESS, TEST_WALLET_ADDRESS, GOVERNANCE_PROGRAM_ADDRESS}

\* C9: for parsable addresses and any vote choice the instruction names the
\* governance program, lists the proposal (writable, not signer) then the
\* voter (signer, not writable), and its data is 0x01 followed by 0x00 for
\* a choice that lower-cases to "approve" and by 0x01 for any other.
C9_InstructionShape ==
  (returned # Pending /\ call.proposal_address \in ParsableAddresses
     /\ call.voter_wallet \in ParsableAddresses)
    => /\ returned.kind = "Instruction"
       /\ returned.program_id = ExpectedKey(GOVERNANCE_PROGRAM_ADDRESS)
       /\ Len(returned.accounts) = 2
       /\ returned.accounts[1] =
            [pubkey |-> ExpectedKey(call.proposal_address),
             is_signer |-> FALSE, is_writable |-> TRUE]
       /\ returned.accounts[2] =
            [pubkey |-> ExpectedKey(call.voter_wallet),
             is_signer |-> TRUE, is_writable |-> FALSE]
       /\ returned.data =
            <<1, IF call.vote_choice \in {APPROVE, APPROVE_CAPITALISED}
                 THEN 0 ELSE 1>>
C9_Witness ==
  /\ returned # Pending /\ returned.kind = "Instruction"
  /\ call.vote_choice = APPROVE_CAPITALISED /\ returned.data = <<1, 0>>
  /\ call.proposal_address = TEST_PROPOSAL_ADDRESS

\* ------------------------------------------------------------------------
\* prepare_vote_transaction: one request, step by step
\* ------------------------------------------------------------------------
\* "Vote "
VOTE_PREFIX ==
  <<86, 111, 116, 101, 32>>
\* "Mock vote "
MOCK_VOTE_PREFIX ==
  <<77, 111, 99, 107, 32, 118, 111, 116, 101, 32>>
\* " on proposal "
ON_PROPOSAL ==
  <<32, 111, 110, 32, 112, 114, 111, 112, 111, 115, 97, 108, 32>>
\* "..."
ELLIPSIS ==
  <<46, 46, 46>>
\* "mock_unsigned_transaction_base64_encoded_fallback"
MOCK_TRANSACTION ==
  <<109, 111, 99, 107, 95, 117, 110, 115, 105, 103, 110, 101, 100, 95,
  116, 114, 97, 110, 115, 97, 99, 116, 105, 111, 110, 95, 98, 97, 115,
  101, 54, 52, 95, 101, 110, 99, 111, 100, 101, 100, 95, 102, 97, 108,
  108, 98, 97, 99, 107>>

\* Field(..., pattern="^(approve|deny)$") of VotePreparationRequest
PatternMatches(vote_choice) == vote_choice \in {APPROVE, DENY}
\* `vote_request.vote_choice not in ["approve", "deny"]` (line 491)
ChoiceIsListed(vote_choice) == vote_choice \in {APPROVE, DENY}

\* two 32-byte block hashes the provider may return
Blockhashes == {[i \in 1..32 |-> 17], [i \in 1..32 |-> (i * 5) % 256]}
\* get_latest_blockhash: a value, a response without value, an exception
\* of the client, or a timeout of the request
ProviderOutcomes ==
  {[kind |-> "value", blockhash |-> h] : h \in Blockhashes}
    \cup {[kind |-> "no_value"], [kind |-> "raises"], [kind |-> "times_out"]}

\* Message.new_with_blockhash(instructions=[ix], payer, blockhash): the
\* payer first, then the other writable keys, then the read-only ones,
\* every key once
RECURSIVE IndexOf(_, _, _)
IndexOf(keys, key, i) ==
  IF keys[i] = key THEN i - 1 ELSE IndexOf(keys, key, i + 1)
new_with_blockhash(ix, payer, blockhash) ==
  LET proposal == ix.accounts[1].pubkey
      voter == ix.accounts[2].pubkey
      signers == <<payer>> \o (IF voter # payer THEN <<voter>> ELSE <<>>)
      writable == IF proposal \in {payer, voter} THEN <<>> ELSE <<proposal>>
      readonly == IF ix.program_id \in {payer, voter, proposal}
                  THEN <<>> ELSE <<ix.program_id>>
      keys == signers \o writable \o readonly
  IN  [ header |-> [num_required_signatures |-> Len(signers),
                    num_readonly_signed |->
                      IF voter # payer /\ voter # proposal THEN 1 ELSE 0,
                    num_readonly_unsigned |-> Len(readonly)],
        account_keys |-> keys,
        recent_blockhash |-> blockhash,
        instructions |->
          << [program_id_index |-> IndexOf(keys, ix.program_id, 1),
              accounts |-> <<IndexOf(keys, proposal, 1), IndexOf(keys, voter, 1)>>,
              data |-> ix.data] >> ]
\* (mutant: every signature slot is filled in)
new_unsigned_Signed(message) ==
  [ signatures |-> [i \in 1..message.header.num_required_signatures |->
                      [j \in 1..64 |-> 1]],
    message |-> message ]
\* Transaction.new_unsigned(message): one all-zero signature per signer
new_unsigned(message) ==
  [ signatures |-> [i \in 1..message.header.num_required_signatures |->
                      [j \in 1..64 |-> 0]],
    message |-> message ]

\* f"Vote {choice} on proposal {proposal_address[:8]}..." and its mock twin
TransactionMessage(prefix, vote_choice, proposal_address) ==
  prefix \o vote_choice \o ON_PROPOSAL \o Slice(proposal_address, 0, 8) \o ELLIPSIS

\* responses of the endpoint
ErrorResponse(status_code, detail) ==
  [status_code |-> status_code, detail |-> detail]
\* the serialized transaction is kept as the transaction it encodes
VotePreparationResponse(unsigned_transaction, transaction_message) ==
  [status_code |-> 200,
   unsigned_transaction |-> unsigned_transaction,
   transaction_message |-> transaction_message]
\* (mutant: the message names the proposal address of the request body)
MockResponse_BodyAddress(req) ==
  VotePreparationResponse(
    [encoding |-> "literal", text |-> MOCK_TRANSACTION],
    TransactionMessage(MOCK_VOTE_PREFIX, req.body.vote_choice,
                       req.body.proposal_address))
MockResponse(req) ==
  VotePreparationResponse(
    [encoding |-> "literal", text |-> MOCK_TRANSACTION],
    TransactionMessage(MOCK_VOTE_PREFIX, req.body.vote_choice, req.proposal_address))

BodyAddresses == {TEST_PROPOSAL_ADDRESS, TEST_WALLET_ADDRESS}
Requests ==
  [ proposal_address : ProposalAddresses,
    body : [proposal_address : BodyAddresses,
            vote_choice : VoteChoices,
            user_wallet : WalletAddresses] ]

\* what a call into the solders / base58 libraries may do
LibraryOutcomes == {"returns", "raises"}
\* one step of the request and how it ended
Event(step, outcome) == [step |-> step, outcome |-> outcome]

\* (mutant: every exception of the try block is masked with the mock)
Handle_MaskAll(exc, req) == MockResponse(req)
\* lines 532-540: `except HTTPException: raise` lets the framework answer
\* with the exception's status; `except Exception` returns the mock
Handle(exc, req) ==
  IF exc.kind = "HTTPException"
  THEN ErrorResponse(exc.status_code, exc.detail)
  ELSE MockResponse(req)
HTTPException(status_code, detail) ==
  [kind |-> "HTTPException", status_code |-> status_code, detail |-> detail]
LibraryError == [kind |-> "Exception", status_code |-> 0, detail |-> ""]

InitVote ==
  /\ request \in Requests
  /\ pc = "validate"
  /\ locals = [voter_pubkey |-> None, recent_blockhash |-> None,
               cast_vote_ix |-> None, message |-> None]
  /\ blockhash_calls = 0
  /\ events = <<>>
  /\ response = Pending
  /\ IdleDecode /\ IdleCall /\ IdleFetch /\ IdleConc /\ IdleApi

Respond(r) == response' = r /\ pc' = "done"
\* (mutant: the instruction is created before the blockhash is fetched)
NextStep_InstructionFirst(step) ==
  CASE step = "validate" -> "check_choice"
    [] step = "check_choice" -> "parse_wallet"
    [] step = "parse_wallet" -> "create_instruction"
    [] step = "create_instruction" -> "get_blockhash"
    [] step = "get_blockhash" -> "build_message"
    [] step = "build_message" -> "serialize"
\* the statement that follows a statement that completed (lines 489-525)
NextStep(step) ==
  CASE step = "validate" -> "check_choice"
    [] step = "check_choice" -> "parse_wallet"
    [] step = "parse_wallet" -> "get_blockhash"
    [] step = "get_blockhash" -> "create_instruction"
    [] step = "create_instruction" -> "build_message"
    [] step = "build_message" -> "serialize"
Log(step, outcome) == events' = Append(events, Event(step, outcome))

\* the framework builds VotePreparationRequest from the body: 422 when the
\* vote choice does not match the pattern
ValidateBody ==
  /\ pc = "validate"
  /\ IF PatternMatches(request.body.vote_choice)
     THEN /\ pc' = NextStep(pc) /\ UNCHANGED response
          /\ Log("VotePreparationRequest", "returns")
     ELSE /\ Respond(ErrorResponse(422, "string_pattern_mismatch"))
          /\ Log("VotePreparationRequest", "raises")
  /\ UNCHANGED <<request, locals, blockhash_calls, decodeVars, callVars,
               fetchVars, concVars, apiVars>>

\* lines 491-492
CheckChoice ==
  /\ pc = "check_choice"
  /\ IF ChoiceIsListed(request.body.vote_choice)
     THEN /\ pc' = NextStep(pc) /\ UNCHANGED response
          /\ Log("check_choice", "returns")
     ELSE /\ Respond(Handle(HTTPException(400, "Invalid vote choice"), request))
          /\ Log("check_choice", "raises")
  /\ UNCHANGED <<request, locals, blockhash_calls, decodeVars, callVars,
               fetchVars, concVars, apiVars>>

\* lines 495-498
ParseWallet ==
  /\ pc = "parse_wallet"
  /\ IF PubkeyParses(request.body.user_wallet)
     THEN /\ locals' = [locals EXCEPT !.voter_pubkey =
                          Some(Pubkey_from_string(request.body.user_wallet))]
          /\ pc' = NextStep(pc) /\ UNCHANGED response
          /\ Log("parse_wallet", "returns")
     ELSE /\ Respond(Handle(HTTPException(400, "Invalid wallet address"), request))
          /\ Log("parse_wallet", "raises")
          /\ UNCHANGED locals
  /\ UNCHANGED <<request, blockhash_calls, decodeVars, callVars,
               fetchVars, concVars, apiVars>>

\* lines 501-505: the await of solana_client.get_latest_blockhash(); an
\* exception of the client, a timeout included, reaches the except clauses
GetLatestBlockhash ==
  /\ pc = "get_blockhash"
  /\ blockhash_calls' = blockhash_calls + 1
  /\ \E outcome \in ProviderOutcomes :
       /\ Log("get_latest_blockhash", outcome.kind)
       /\ CASE outcome.kind = "value" ->
                 /\ locals' = [locals EXCEPT
                                 !.recent_blockhash = Some(outcome.blockhash)]
                 /\ pc' = NextStep(pc) /\ UNCHANGED response
            [] outcome.kind = "no_value" ->
                 /\ Respond(Handle(HTTPException(500,
                              "Failed to get recent blockhash"), request))
                 /\ UNCHANGED locals
            [] outcome.kind \in {"raises", "times_out"} ->
                 /\ Respond(Handle(LibraryError, request))
                 /\ UNCHANGED locals
  /\ UNCHANGED <<request, decodeVars, callVars,
               fetchVars, concVars, apiVars>>

\* lines 508-512: the call of create_cast_vote_instruction, whose except
\* clause turns an unparsable address and any failure of the instruction
\* constructors into its HTTPException
CreateInstruction ==
  /\ pc = "create_instruction"
  /\ \E lib \in LibraryOutcomes :
       LET ix == IF lib = "raises" THEN CastVoteFailure
                 ELSE create_cast_vote_instruction(request.proposal_address,
                        request.body.user_wallet, request.body.vote_choice)
       IN  IF ix.kind = "Instruction"
           THEN /\ locals' = [locals EXCEPT !.cast_vote_ix = Some(ix)]
                /\ pc' = NextStep(pc) /\ UNCHANGED response
                /\ Log("create_cast_vote_instruction", "returns")
           ELSE /\ Respond(Handle(ix, request))
                /\ Log("create_cast_vote_instruction",
                       IF PubkeyParses(request.proposal_address)
                       THEN "raises" ELSE "raises_address")
                /\ UNCHANGED locals
  /\ UNCHANGED <<request, blockhash_calls, decodeVars, callVars,
               fetchVars, concVars, apiVars>>

\* lines 515-519
BuildMessage ==
  /\ pc = "build_message"
  /\ \E lib \in LibraryOutcomes :
       /\ Log("new_with_blockhash", lib)
       /\ IF lib = "returns"
          THEN /\ locals' = [locals EXCEPT !.message =
                     Some(new_with_blockhash(locals.cast_vote_ix[1],
                            locals.voter_pubkey[1], locals.recent_blockhash[1]))]
               /\ pc' = NextStep(pc) /\ UNCHANGED response
          ELSE /\ Respond(Handle(LibraryError, request))
               /\ UNCHANGED locals
  /\ UNCHANGED <<request, blockhash_calls, decodeVars, callVars,
               fetchVars, concVars, apiVars>>

\* lines 522-530
SerializeAndReturn ==
  /\ pc = "serialize"
  /\ \E lib \in LibraryOutcomes :
       /\ Log("serialize", lib)
       /\ IF lib = "returns"
          THEN Respond(VotePreparationResponse(
                 [encoding |-> "base58",
                  transaction |-> new_unsigned(locals.message[1])],
                 TransactionMessage(VOTE_PREFIX, request.body.vote_choice,
                                    request.proposal_address)))
          ELSE Respond(Handle(LibraryError, request))
  /\ UNCHANGED <<request, locals, blockhash_calls, decodeVars, callVars,
               fetchVars, concVars, apiVars>>

NextVote ==
  \/ ValidateBody \/ CheckChoice \/ ParseWallet \/ GetLatestBlockhash
  \/ CreateInstruction \/ BuildMessage \/ SerializeAndReturn
SpecVote == InitVote /\ [][NextVote]_vars

\* ------------------------------------------------------------------------
\* Properties of the prepare-vote request
\* ------------------------------------------------------------------------
Done == pc = "done"
ClientError == response.status_code \in 400..499
\* the request was turned down because of its vote choice
ChoiceRejected ==
  /\ ClientError
  /\ response.detail \in {"string_pattern_mismatch", "Invalid vote choice"}

\* C8: the vote choice is accepted exactly when it is "approve" or "deny"
\* compared case-insensitively ("Approve" and "DENY" included); any other
\* choice is rejected with a client error and no transaction is produced.
C8_ChoiceCaseInsensitive ==
  Done =>
    IF request.body.vote_choice \in {APPROVE, DENY, APPROVE_CAPITALISED, DENY_UPPER}
    THEN ~ChoiceRejected
    ELSE ChoiceRejected /\ "unsigned_transaction" \notin DOMAIN response

\* C10: a request whose proposal address or voter wallet does not parse is
\* rejected with a client error, and get_latest_blockhash is never called
\* for it.
C10_BadAddressRejectedFirst ==
  (request.proposal_address \notin ParsableAddresses
     \/ request.body.user_wallet \notin ParsableAddresses)
    => /\ blockhash_calls = 0
       /\ Done => ClientError

\* the step ended this way in this request
Happened(step, outcome) ==
  \E i \in 1..Len(events) : events[i] = Event(step, outcome)
NoBlockReference ==
  \/ Happened("get_latest_blockhash", "no_value")
  \/ Happened("get_latest_blockhash", "raises")
IsMock ==
  /\ response.status_code = 200
  /\ response.unsigned_transaction =
       [encoding |-> "literal", text |-> MOCK_TRANSACTION]
  /\ Len(response.transaction_message) >= 10
  /\ SubSeq(response.transaction_message, 1, 10) = MOCK_VOTE_PREFIX

NoLibraryFault ==
  /\ ~Happened("create_cast_vote_instruction", "raises")
  /\ ~Happened("new_with_blockhash", "raises")
  /\ ~Happened("serialize", "raises")
IsErrorResponse == response.status_code >= 400

\* C12: when create_cast_vote_instruction, or the building or serializing
\* of the message, throws for a reason other than input validation, the
\* handler responds with the mock transaction string and a message starting
\* "Mock vote", instead of an error response.
C12_BuilderFailureIsMocked ==
  (Done /\ ~NoLibraryFault) => IsMock

\* C13: for a vote choice "approve" or "deny", a parsable wallet and a
\* parsable proposal address, whatever get_latest_blockhash does, the
\* response is successful and carries unsigned_transaction and
\* transaction_message: the real transaction when the provider returned a
\* blockhash, the mock otherwise.
C13_AlwaysSuccessful ==
  (/\ Done /\ NoLibraryFault
   /\ request.body.vote_choice \in {APPROVE, DENY}
   /\ request.body.user_wallet \in ParsableAddresses
   /\ request.proposal_address \in ParsableAddresses)
    => /\ response.status_code = 200
       /\ {"unsigned_transaction", "transaction_message"} \subseteq DOMAIN response
       /\ IF Happened("get_latest_blockhash", "value")
          THEN response.unsigned_transaction.encoding = "base58"
          ELSE IsMock

\* C14: the only error responses are client errors caused by input
\* validation; no server error (5xx) response is reachable.
C14_NoServerError ==
  (Done /\ NoLibraryFault /\ IsErrorResponse)
    => /\ response.status_code < 500
       /\ response.detail \in {"string_pattern_mismatch", "Invalid vote choice",
                               "Invalid wallet address"}

\* C15: on the non-fallback path the returned transaction has exactly one
\* instruction, the cast-vote instruction; its fee payer is the voter
\* wallet; its blockhash is the one get_latest_blockhash returned in this
\* request; every signature slot is empty; and transaction_message is
\* "Vote <choice> on proposal <first 8 characters of the address>...".
C15_RealTransaction ==
  (Done /\ response.status_code = 200
     /\ response.unsigned_transaction.encoding = "base58")
    => LET tx == response.unsigned_transaction.transaction
           m == tx.message
           ix == m.instructions[1]
           address == request.proposal_address
       IN  /\ Len(m.instructions) = 1
           /\ m.account_keys[ix.program_id_index + 1] =
                ExpectedKey(GOVERNANCE_PROGRAM_ADDRESS)
           /\ Len(ix.accounts) = 2
           /\ m.account_keys[ix.accounts[1] + 1] = ExpectedKey(address)
           /\ m.account_keys[ix.accounts[2] + 1] =
                ExpectedKey(request.body.user_wallet)
           /\ ix.data = <<1, IF request.body.vote_choice = APPROVE THEN 0 ELSE 1>>
           /\ m.account_keys[1] = ExpectedKey(request.body.user_wallet)
           /\ m.header.num_required_signatures >= 1
           /\ Happened("get_latest_blockhash", "value")
           /\ m.recent_blockhash \in Blockhashes
           /\ locals.recent_blockhash = Some(m.recent_blockhash)
           /\ \A i \in 1..Len(tx.signatures) :
                tx.signatures[i] = [j \in 1..64 |-> 0]
           /\ response.transaction_message =
                VOTE_PREFIX \o request.body.vote_choice \o ON_PROPOSAL
                  \o SubSeq(address, 1, 8) \o ELLIPSIS
C15_Witness ==
  /\ Done /\ response.status_code = 200
  /\ response.unsigned_transaction.encoding = "base58"
  /\ request.body.vote_choice = DENY
  /\ request.proposal_address = TEST_PROPOSAL_ADDRESS
  /\ request.body.user_wallet = TEST_WALLET_ADDRESS
  /\ Len(response.unsigned_transaction.transaction.signatures) = 1

\* ------------------------------------------------------------------------
\* fetch_proposal_data: one call, step by step
\* ------------------------------------------------------------------------
\* "Proposal "
PROPOSAL_PREFIX ==
  <<80, 114, 111, 112, 111, 115, 97, 108, 32>>
\* "This proposal demonstrates real on-chain data fetching. In case of parsing errors, this fallback ensures the system remains functional."
FALLBACK_DESCRIPTION ==
  <<84, 104, 105, 115, 32, 112, 114, 111, 112, 111, 115, 97, 108, 32, 100,
  101, 109, 111, 110, 115, 116, 114, 97, 116, 101, 115, 32, 114, 101, 97,
  108, 32, 111, 110, 45, 99, 104, 97, 105, 110, 32, 100, 97, 116, 97, 32,
  102, 101, 116, 99, 104, 105, 110, 103, 46, 32, 73, 110, 32, 99, 97, 115,
  101, 32, 111, 102, 32, 112, 97, 114, 115, 105, 110, 103, 32, 101, 114,
  114, 111, 114, 115, 44, 32, 116, 104, 105, 115, 32, 102, 97, 108, 108, 98,
  97, 99, 107, 32, 101, 110, 115, 117, 114, 101, 115, 32, 116, 104, 101, 32,
  115, 121, 115, 116, 101, 109, 32, 114, 101, 109, 97, 105, 110, 115, 32,
  102, 117, 110, 99, 116, 105, 111, 110, 97, 108, 46>>
\* "Realm address would be here"
REALM_PLACEHOLDER ==
  <<82, 101, 97, 108, 109, 32, 97, 100, 100, 114, 101, 115, 115, 32, 119,
  111, 117, 108, 100, 32, 98, 101, 32, 104, 101, 114, 101>>
\* "Governance address would be here"
GOVERNANCE_PLACEHOLDER ==
  <<71, 111, 118, 101, 114, 110, 97, 110, 99, 101, 32, 97, 100, 100, 114,
  101, 115, 115, 32, 119, 111, 117, 108, 100, 32, 98, 101, 32, 104, 101,
  114, 101>>

\* 9999-12-31T23:59:59 UTC, the last second datetime.fromtimestamp can
\* represent (the local zone moves the limit by less than a day)
MAX_TIMESTAMP == <<16767, 65524, 58, 0>>
\* a <= b on 64-bit values
RECURSIVE LessEq64(_, _, _)
LessEq64(a, b, i) ==
  IF i = 0 THEN TRUE
  ELSE IF a[i] # b[i] THEN a[i] < b[i]
  ELSE LessEq64(a, b, i - 1)
\* datetime.fromtimestamp(v) raises OverflowError or ValueError beyond
\* the last representable second
FromTimestampFits(v) == LessEq64(v, MAX_TIMESTAMP, 4)
\* datetime.fromtimestamp(v).isoformat(), kept as the instant it writes
isoformat(v) == [isoformat |-> v]

\* dict.get(key): None when the key is missing
Get(p, key) == IF key \in DOMAIN p THEN Some(p[key]) ELSE None
\* (mutant: `is not None` in place of truthiness)
Truthy_NotNone(optional) == optional # None
\* truthiness of an optional integer: None and 0 are false
Truthy(optional) == optional # None /\ optional[1] # U64(0)
VotingAt(p) == IF "voting_at" \in DOMAIN p THEN p.voting_at ELSE None

\* the conversions of lines 325-326 raise
ConversionRaises(p) ==
  \/ p.draft_at # U64(0) /\ ~FromTimestampFits(p.draft_at)
  \/ Truthy(VotingAt(p)) /\ ~FromTimestampFits(VotingAt(p)[1])
\* the dict of the return statement (lines 321-329)
FetchedRecord(p) ==
  [ title |-> p.name,
    description |-> p.description_link,
    state |-> p.state,
    created_at |-> IF p.draft_at # U64(0)
                   THEN Some(isoformat(p.draft_at)) ELSE None,
    voting_at |-> IF Truthy(VotingAt(p))
                  THEN Some(isoformat(VotingAt(p)[1])) ELSE None,
    realm |-> Get(p, "realm"),
    governance |-> Get(p, "governance") ]
\* the dict of the except clause (lines 334-342), with the two readings of
\* datetime.now()
FallbackRecord(address, created_now, voting_now) ==
  [ title |-> PROPOSAL_PREFIX \o Slice(address, 0, 8) \o ELLIPSIS,
    description |-> FALLBACK_DESCRIPTION,
    state |-> "Voting",
    created_at |-> Some(isoformat(U64(created_now))),
    voting_at |-> Some(isoformat(U64(voting_now))),
    realm |-> Some(REALM_PLACEHOLDER),
    governance |-> Some(GOVERNANCE_PLACEHOLDER) ]

\* `except Exception` (line 331): HTTPException and the errors of solders,
\* of the RPC client and of datetime are all subclasses of Exception
\* (mutant: `except HTTPException: raise` ahead of it)
FetchExcept_HTTPExceptionFirst(exc) == exc # "HTTPException"
FetchExcept(exc) ==
  exc \in {"ValueError", "SolanaRpcException", "TimeoutException",
           "HTTPException", "OverflowError", "struct.error"}

\* get_account_info: an exception of the client, a timeout, no account, an
\* account without data, or an account with data
AccountBuffers ==
  {Encode([BaseKnown EXCEPT !.state_byte = sb, !.timestamps = ts,
                            !.trailing = t]) :
     sb \in {0, 2}, ts \in Timestamps, t \in 0..MaxTrailing}
  \cup {SubSeq(Encode(BaseKnown), 1, cut) : cut \in {4, 100, 180}}
AccountOutcomes ==
  {[kind |-> k, data |-> <<>>] :
     k \in {"raises", "times_out", "no_account", "empty_data"}}
    \cup {[kind |-> "account", data |-> d] : d \in AccountBuffers}

InitFetch ==
  /\ fetch_address \in ProposalAddresses
  /\ fetch_pc = "parse_address"
  /\ fetch_locals = [account_data |-> <<>>, parsed_data |-> NoRequest]
  /\ fetched = Pending
  /\ IdleDecode /\ IdleCall /\ IdleVote /\ IdleConc /\ IdleApi

\* the exception leaves the try block: the except clause returns the
\* fallback, or the exception leaves the function
Raise(exc) ==
  /\ fetch_pc' = "done"
  /\ IF FetchExcept(exc)
     THEN \E created_now \in Nows, voting_now \in Nows :
            /\ created_now <= voting_now
            /\ fetched' = [kind |-> "returned", exc |-> exc,
                           value |-> FallbackRecord(fetch_address,
                                       created_now, voting_now)]
     ELSE fetched' = [kind |-> "raised", exc |-> exc]

\* line 309
FetchParseAddress ==
  /\ fetch_pc = "parse_address"
  /\ IF PubkeyParses(fetch_address)
     THEN fetch_pc' = "get_account_info" /\ UNCHANGED fetched
     ELSE Raise("ValueError")
  /\ UNCHANGED <<fetch_address, fetch_locals, decodeVars, callVars, voteVars,
               concVars, apiVars>>

\* lines 312-318
GetAccountInfo ==
  /\ fetch_pc = "get_account_info"
  /\ \E outcome \in AccountOutcomes :
       CASE outcome.kind = "raises" ->
              Raise("SolanaRpcException") /\ UNCHANGED fetch_locals
         [] outcome.kind = "times_out" ->
              Raise("TimeoutException") /\ UNCHANGED fetch_locals
         [] outcome.kind \in {"no_account", "empty_data"} ->
              Raise("HTTPException") /\ UNCHANGED fetch_locals
         [] outcome.kind = "account" ->
              /\ fetch_locals' = [fetch_locals EXCEPT
                                    !.account_data = outcome.data]
              /\ fetch_pc' = "parse" /\ UNCHANGED fetched
  /\ UNCHANGED <<fetch_address, decodeVars, callVars, voteVars,
               concVars, apiVars>>

\* line 319
FetchParse ==
  /\ fetch_pc = "parse"
  /\ \E now \in Nows :
       LET parsed == parse_proposal_v2_account(fetch_locals.account_data, now)
       IN  IF parsed.kind = "raised"
           THEN Raise(parsed.locals.exc) /\ UNCHANGED fetch_locals
           ELSE /\ fetch_locals' = [fetch_locals EXCEPT !.parsed_data =
                                      [kind |-> parsed.kind,
                                       value |-> parsed.value]]
                /\ fetch_pc' = "return" /\ UNCHANGED fetched
  /\ UNCHANGED <<fetch_address, decodeVars, callVars, voteVars,
               concVars, apiVars>>

\* lines 321-329
FetchReturn ==
  /\ fetch_pc = "return"
  /\ LET p == fetch_locals.parsed_data.value
     IN  IF ConversionRaises(p)
         THEN Raise("OverflowError")
         ELSE /\ fetched' = [kind |-> "returned", exc |-> "none",
                             value |-> FetchedRecord(p)]
              /\ fetch_pc' = "done"
  /\ UNCHANGED <<fetch_address, fetch_locals, decodeVars, callVars, voteVars,
               concVars, apiVars>>

NextFetch ==
  \/ FetchParseAddress \/ GetAccountInfo \/ FetchParse \/ FetchReturn
SpecFetch == InitFetch /\ [][NextFetch]_vars

\* ------------------------------------------------------------------------
\* Properties of fetch_proposal_data
\* ------------------------------------------------------------------------
FetchDone == fetch_pc = "done"
IsPlaceholder(value) ==
  /\ value.title = PROPOSAL_PREFIX \o SubSeq(fetch_address, 1, 8) \o ELLIPSIS
  /\ value.state = "Voting"

\* C16: fetch_proposal_data never raises; when the address does not parse,
\* the RPC call raises or times out, the account is missing or has no data
\* (the 404 raised inside), or a decoded timestamp cannot be converted to
\* a date, it returns the placeholder record with title
\* "Proposal <first 8 characters>..." and state "Voting".
C16_FetchNeverRaises ==
  /\ fetched.kind # "raised"
  /\ FetchDone =>
       /\ fetched.kind = "returned"
       /\ fetch_address \notin ParsableAddresses => fetched.exc = "ValueError"
       /\ fetched.exc # "none" => IsPlaceholder(fetched.value)
C16_Witness ==
  /\ FetchDone /\ fetched.kind = "returned"
  /\ fetched.exc = "HTTPException" /\ IsPlaceholder(fetched.value)

\* C17: every returned value has exactly the keys title, description,
\* state, created_at, voting_at, realm, governance; on the decoded path
\* created_at is null exactly when the decoded draft_at is 0 and voting_at
\* is null exactly when the decoded voting_at is absent or 0.
C17_FetchedShape ==
  (FetchDone /\ fetched.kind = "returned") =>
    /\ DOMAIN fetched.value =
         {"title", "description", "state", "created_at", "voting_at",
          "realm", "governance"}
    /\ (fetched.exc = "none" /\ fetch_locals.parsed_data.kind = "decoded") =>
         LET p == fetch_locals.parsed_data.value
         IN  /\ fetched.value.created_at = None <=> p.draft_at = U64(0)
             /\ fetched.value.voting_at = None
                  <=> p.voting_at \in {None, Some(U64(0))}
C17_Witness ==
  /\ FetchDone /\ fetched.kind = "returned" /\ fetched.exc = "none"
  /\ fetch_locals.parsed_data.kind = "decoded"
  /\ fetch_locals.parsed_data.value.voting_at = Some(U64(0))
  /\ fetched.value.voting_at = None
  /\ fetched.value.created_at = None

\* ------------------------------------------------------------------------
\* Further properties of the decoder
\* ------------------------------------------------------------------------
\* C18: a successfully decoded record surfaces governing_token_mint, realm,
\* governance, proposal_owner and proposal_seed, each as the base58
\* encoding of the 32 bytes at offsets 9, 41, 73, 105 and 137.
C18_FiveIdentifiers ==
  (Returned /\ result.kind = "decoded")
    => /\ result.value.governing_token_mint = b58encode(SubSeq(data, 10, 41))
       /\ result.value.realm = b58encode(SubSeq(data, 42, 73))
       /\ result.value.governance = b58encode(SubSeq(data, 74, 105))
       /\ result.value.proposal_owner = b58encode(SubSeq(data, 106, 137))
       /\ "proposal_seed" \in DOMAIN result.value
       /\ result.value.proposal_seed = b58encode(SubSeq(data, 138, 169))

\* C19: the substitute record has the same set of fields as a decoded
\* record: account_type, the 32-byte identifiers, name, description_link,
\* state, draft_at, signing_off_at and voting_at.
C19_SubstituteHasAllFields ==
  (Returned /\ result.kind = "substitute")
    => {"account_type", "governing_token_mint", "realm", "governance",
        "proposal_owner", "name", "description_link", "state", "draft_at",
        "signing_off_at", "voting_at"} \subseteq DOMAIN result.value

\* REALM_DISCRIMINATOR, TOKEN_OWNER_RECORD_DISCRIMINATOR and two byte
\* strings that name no account kind
Discriminators ==
  { PROPOSAL_V2_DISCRIMINATOR,
    <<0, 0, 0, 0, 0, 0, 0, 0>>, <<0, 0, 0, 0, 0, 0, 0, 2>>,
    <<9, 9, 9, 9, 9, 9, 9, 9>>, <<255, 254, 253, 252, 251, 250, 249, 248>> }
\* the buffer with its first 8 bytes replaced
WithDiscriminator(d, dc) == dc \o SubSeq(d, 9, Len(d))

\* C20: two buffers of length >= 8 that differ only in their first 8 bytes
\* decode to the same record, or both take the substitute path.
C20_DiscriminatorIgnored ==
  (Returned /\ Len(data) >= 8) =>
    \A dc \in Discriminators :
      LET twin == parse_proposal_v2_account(WithDiscriminator(data, dc), 0)
      IN  /\ twin.kind = result.kind
          /\ result.kind = "decoded" => twin.value = result.value
C20_Witness ==
  /\ Returned /\ result.kind = "decoded"
  /\ SubSeq(data, 1, 8) = <<9, 9, 9, 9, 9, 9, 9, 9>>
  /\ result.value.account_type = 14

\* C21: two calls of parse_proposal_v2_account with the same bytes, made at
\* any two times, return equal records, on the decoded path and on the
\* substitute path alike.
C21_SameBytesSameRecord ==
  Returned =>
    \A now \in Nows : parse_proposal_v2_account(data, now).value = result.value

HasInvalid == known.name_invalid # <<>> \/ known.desc_invalid # <<>>
REPLACEMENT_CHARACTER == <<65533>>
Marked(invalid, text) ==
  (IF invalid # <<>> THEN REPLACEMENT_CHARACTER ELSE <<>>) \o text

\* C22 (as stated): an ill-formed UTF-8 sequence in the name or the
\* description link never leads to the substitute, and each ill-formed
\* sequence appears as a replacement marker in the decoded string.
C22_InvalidReplaced ==
  (Returned /\ data = Encode(known) /\ WellFormed(known) /\ HasInvalid)
    => /\ result.kind = "decoded"
       /\ result.value.name = Marked(known.name_invalid, known.name)
       /\ result.value.description_link =
            Marked(known.desc_invalid, known.description_link)
\* C22 (amended): an ill-formed UTF-8 sequence in the name or the
\* description link never leads to the substitute; it is dropped from the
\* decoded string, which keeps the well-formed text around it.
C22_InvalidDropped ==
  (Returned /\ data = Encode(known) /\ WellFormed(known) /\ HasInvalid)
    => /\ result.kind = "decoded"
       /\ result.value.name = known.name
       /\ result.value.description_link = known.description_link
C22_Witness ==
  /\ Returned /\ data = Encode(known)
  /\ known.name_invalid = <<226, 130>> /\ known.name = <<233>>
  /\ known.desc_invalid = <<128>>
  /\ result.kind = "decoded" /\ result.value.name = <<233>>

\* C27: in a decoded record, voting_at is present only if signing_off_at
\* is, and signing_off_at only if draft_at was read from the buffer; the
\* read position of signing_off_at is the state offset + 9 whether or not
\* draft_at was read.
C27_TimestampPrefix ==
  (Returned /\ result.kind = "decoded") =>
    LET l == result.locals
        draft_read == Len(data) > l.off_state + 9
    IN  /\ result.value.voting_at # None => result.value.signing_off_at # None
        /\ result.value.signing_off_at # None
             => /\ draft_read
                /\ result.value.draft_at = unpack_from_Q(data, l.off_state + 1)
        /\ l.off_signing = l.off_state + 9
        /\ result.value.signing_off_at # None
             => result.value.signing_off_at =
                  Some(unpack_from_Q(data, l.off_state + 9))
C27_Witness ==
  /\ Returned /\ result.kind = "decoded"
  /\ Len(data) <= result.locals.off_state + 9
  /\ result.value.draft_at = U64(0)
  /\ result.value.signing_off_at = None /\ result.value.voting_at = None
  /\ result.locals.off_signing = result.locals.off_state + 9

\* the steps of one request in the order of the claim, after the framework
\* has built the request body
StepOrder ==
  << "VotePreparationRequest", "check_choice", "parse_wallet",
     "get_latest_blockhash", "create_cast_vote_instruction",
     "new_with_blockhash", "serialize" >>
Succeeded(event) == event.outcome \in {"returns", "value"}
BlockhashCallsLogged ==
  Cardinality({i \in 1..Len(events) : events[i].step = "get_latest_blockhash"})

\* C26: the steps of one request occur in the fixed order vote-choice
\* check, wallet parse, get_latest_blockhash, create_cast_vote_instruction,
\* message build, serialization, each only after all earlier ones
\* succeeded; get_latest_blockhash is called at most once and never after
\* a 400 has been decided.
C26_StepOrder ==
  /\ Len(events) <= Len(StepOrder)
  /\ \A i \in 1..Len(events) :
       /\ events[i].step = StepOrder[i]
       /\ i < Len(events) => Succeeded(events[i])
  /\ blockhash_calls <= 1
  /\ blockhash_calls = BlockhashCallsLogged
  /\ (Done /\ response.status_code = 400) => blockhash_calls = 0
  /\ Done <=> \/ Len(events) > 0 /\ ~Succeeded(events[Len(events)])
              \/ Len(events) = Len(StepOrder)
C26_Witness ==
  /\ Done /\ Len(events) = 7 /\ blockhash_calls = 1
  /\ response.status_code = 200

\* the fetched account bytes are too short for the fixed part of the layout
AccountFailsToDecode ==
  /\ fetch_locals.account_data # <<>>
  /\ Len(fetch_locals.account_data) < StateEnd(BaseKnown)

\* C28: when the fetched account bytes fail to decode, fetch_proposal_data
\* does not take its own fallback branch: it returns the decoder's
\* substitute (title "Parsed Proposal", description
\* "https://example.com/proposal", state "Voting", non-null created_at and
\* voting_at, null realm and governance); its own placeholder is returned
\* only when the failure happens outside the decoder.
C28_DecoderRecoveryWins ==
  FetchDone =>
    /\ AccountFailsToDecode =>
         /\ fetched.kind = "returned" /\ fetched.exc = "none"
         /\ fetched.value.title = PARSED_PROPOSAL
         /\ fetched.value.description = EXAMPLE_LINK
         /\ fetched.value.state = "Voting"
         /\ fetched.value.created_at # None
         /\ fetched.value.voting_at # None
         /\ fetched.value.realm = None
         /\ fetched.value.governance = None
    /\ (fetched.kind = "returned" /\ IsPlaceholder(fetched.value)) =>
         /\ ~AccountFailsToDecode
         /\ fetched.exc \in {"ValueError", "SolanaRpcException",
                             "TimeoutException", "HTTPException",
                             "OverflowError"}
C28_Witness ==
  /\ FetchDone /\ AccountFailsToDecode /\ fetched.kind = "returned"
  /\ Len(fetch_locals.account_data) = 100
  /\ fetched.value.title = PARSED_PROPOSAL

\* ------------------------------------------------------------------------
\* prepare_vote_transaction as two segments around its one await
\* ------------------------------------------------------------------------
Awaiting == [kind |-> "awaiting"]
\* the request body validation and lines 491-498: the response decided
\* before get_latest_blockhash is awaited, or Awaiting
BeforeBlockhash(req) ==
  IF ~PatternMatches(req.body.vote_choice)
  THEN ErrorResponse(422, "string_pattern_mismatch")
  ELSE IF ~ChoiceIsListed(req.body.vote_choice)
  THEN Handle(HTTPException(400, "Invalid vote choice"), req)
  ELSE IF ~PubkeyParses(req.body.user_wallet)
  THEN Handle(HTTPException(400, "Invalid wallet address"), req)
  ELSE Awaiting
\* lines 502-530 once the await has ended with `outcome`
AfterBlockhash(req, outcome) ==
  IF outcome.kind \in {"raises", "times_out"}
  THEN Handle(LibraryError, req)
  ELSE IF outcome.kind = "no_value"
  THEN Handle(HTTPException(500, "Failed to get recent blockhash"), req)
  ELSE
  LET ix == create_cast_vote_instruction(req.proposal_address,
              req.body.user_wallet, req.body.vote_choice)
  IN  IF ix.kind # "Instruction" THEN Handle(ix, req)
      ELSE VotePreparationResponse(
             [encoding |-> "base58",
              transaction |->
                new_unsigned(new_with_blockhash(ix,
                  Pubkey_from_string(req.body.user_wallet), outcome.blockhash))],
             TransactionMessage(VOTE_PREFIX, req.body.vote_choice,
                                req.proposal_address))
\* the response of one request served alone
prepare_vote_transaction(req, outcome) ==
  IF BeforeBlockhash(req) # Awaiting THEN BeforeBlockhash(req)
  ELSE AfterBlockhash(req, outcome)

\* the provider outcomes compatible with what this request saw
ObservedOutcomes ==
  {o \in ProviderOutcomes :
     blockhash_calls = 1 =>
       /\ Happened("get_latest_blockhash", o.kind)
       /\ o.kind = "value" => locals.recent_blockhash = Some(o.blockhash)}
\* the same request with another proposal address in its body
WithBodyAddress(req, address) ==
  [req EXCEPT !.body.proposal_address = address]

\* C29: the proposal_address of the request body has no effect: a request
\* that differs only in that field gets the same response, given the same
\* blockhash outcome, even when the body's address is not the path's.
C29_BodyAddressIgnored ==
  (Done /\ NoLibraryFault) =>
    \A address \in BodyAddresses \cup {NOT_AN_ADDRESS}, o \in ObservedOutcomes :
      prepare_vote_transaction(WithBodyAddress(request, address), o) = response
C29_Witness ==
  /\ Done /\ NoLibraryFault /\ response.status_code = 200
  /\ request.body.proposal_address # request.proposal_address
  /\ request.body.proposal_address = TEST_WALLET_ADDRESS
  /\ request.proposal_address = TEST_PROPOSAL_ADDRESS
  /\ response.unsigned_transaction.encoding = "base58"

\* ------------------------------------------------------------------------
\* fetch_proposal_data as two segments around its one await
\* ------------------------------------------------------------------------
\* the except clause of line 331 for an exception raised in the try block;
\* both readings of the clock give `now`
Caught(exc, address, now) ==
  IF FetchExcept(exc)
  THEN [kind |-> "returned", exc |-> exc,
        value |-> FallbackRecord(address, now, now)]
  ELSE [kind |-> "raised", exc |-> exc]
\* line 309: the result decided before get_account_info is awaited, or
\* Awaiting
BeforeAccountInfo(address, now) ==
  IF PubkeyParses(address) THEN Awaiting ELSE Caught("ValueError", address, now)
\* lines 314-342 once the await has ended with `outcome`
AfterAccountInfo(address, outcome, now) ==
  IF outcome.kind = "raises" THEN Caught("SolanaRpcException", address, now)
  ELSE IF outcome.kind = "times_out"
  THEN Caught("TimeoutException", address, now)
  ELSE IF outcome.kind \in {"no_account", "empty_data"}
  THEN Caught("HTTPException", address, now)
  ELSE
  LET parsed == parse_proposal_v2_account(outcome.data, now)
  IN  IF parsed.kind = "raised" THEN Caught(parsed.locals.exc, address, now)
      ELSE IF ConversionRaises(parsed.value)
      THEN Caught("OverflowError", address, now)
      ELSE [kind |-> "returned", exc |-> "none",
            value |-> FetchedRecord(parsed.value)]
\* the result of one call served alone
fetch_proposal_data(address, outcome, now) ==
  IF BeforeAccountInfo(address, now) # Awaiting
  THEN BeforeAccountInfo(address, now)
  ELSE AfterAccountInfo(address, outcome, now)

\* the step model and the segments agree
FetchSegmentsAgree ==
  (FetchDone /\ fetched.kind = "returned" /\ fetched.exc = "none") =>
    \E now \in Nows :
      fetch_proposal_data(fetch_address,
        [kind |-> "account", data |-> fetch_locals.account_data], now) = fetched
VoteSegmentsAgree ==
  (Done /\ NoLibraryFault) =>
    \A o \in ObservedOutcomes : prepare_vote_transaction(request, o) = response

\* ------------------------------------------------------------------------
\* Requests served concurrently on one event loop: each coroutine runs
\* from one await to the next, and the global solana_client (line 110) is
\* the only object the requests share
\* ------------------------------------------------------------------------
Slots == {1, 2}
ConcurrentVoteRequests ==
  [ proposal_address : {TEST_PROPOSAL_ADDRESS, SHORT_ADDRESS},
    body : [proposal_address : {TEST_PROPOSAL_ADDRESS},
            vote_choice : {APPROVE, YES},
            user_wallet : {TEST_WALLET_ADDRESS}] ]
ConcurrentFetchAddresses == {TEST_PROPOSAL_ADDRESS, NOT_AN_ADDRESS}
ConcurrentBuffers == {Encode(BaseKnown), SubSeq(Encode(BaseKnown), 1, 100)}
ConcurrentAccountOutcomes ==
  {[kind |-> k, data |-> <<>>] : k \in {"raises", "no_account"}}
    \cup {[kind |-> "account", data |-> d] : d \in ConcurrentBuffers}
\* what the provider may answer to a call of the method
OutcomesOf(method) ==
  IF method = "get_latest_blockhash" THEN ProviderOutcomes
  ELSE ConcurrentAccountOutcomes
InputsOf(kind) ==
  CASE kind = "vote" -> ConcurrentVoteRequests
    [] kind = "fetch" -> ConcurrentFetchAddresses
    [] kind = "decode" -> ConcurrentBuffers
MethodOf(kind) ==
  IF kind = "vote" THEN "get_latest_blockhash" ELSE "get_account_info"

RequestKinds == {"vote", "fetch", "decode"}
NewSlot(kind, input, now) ==
  [kind |-> kind, input |-> input, now |-> now, pc |-> "start",
   result |-> Pending]
InitConcurrent ==
  /\ \E kind1 \in RequestKinds, kind2 \in RequestKinds, now \in Nows :
       \E input1 \in InputsOf(kind1), input2 \in InputsOf(kind2) :
         slots = <<NewSlot(kind1, input1, now), NewSlot(kind2, input2, now)>>
  /\ solana_client = [in_flight |-> {}, replies |-> {}]
  /\ IdleDecode /\ IdleCall /\ IdleVote /\ IdleFetch /\ IdleApi

\* the part of the coroutine before its await
FirstSegment(s) ==
  CASE s.kind = "vote" -> BeforeBlockhash(s.input)
    [] s.kind = "fetch" -> BeforeAccountInfo(s.input, s.now)
    [] s.kind = "decode" -> parse_proposal_v2_account(s.input, s.now)
\* the part of the coroutine after its await has ended with `outcome`
SecondSegment(s, outcome) ==
  IF s.kind = "vote" THEN AfterBlockhash(s.input, outcome)
  ELSE AfterAccountInfo(s.input, outcome, s.now)

\* (mutant: an await is resumed with the latest reply to the method,
\* whoever called)
ReplyFor_AnyCaller(client, i, method) ==
  CHOOSE r \in client.replies :
    /\ r.method = method
    /\ \A q \in client.replies : q.method = method => q.seq <= r.seq
\* the await of a call of the shared client ends with the reply to that
\* call (lines 312 and 501)
ReplyFor(client, i, method) ==
  CHOOSE r \in client.replies : r.caller = i

\* the coroutine of slot i runs up to its await, or to its end
Start(i) ==
  /\ slots[i].pc = "start"
  /\ LET early == FirstSegment(slots[i])
     IN  IF early = Awaiting
         THEN /\ slots' = [slots EXCEPT ![i].pc = "awaiting"]
              /\ solana_client' =
                   [solana_client EXCEPT !.in_flight =
                      @ \cup {[caller |-> i, method |-> MethodOf(slots[i].kind)]}]
         ELSE /\ slots' = [slots EXCEPT ![i].pc = "done", ![i].result = early]
              /\ UNCHANGED solana_client
  /\ UNCHANGED <<decodeVars, callVars, voteVars, fetchVars, apiVars>>

\* the provider answers one of the calls in flight, in any order
ProviderReplies ==
  /\ \E c \in solana_client.in_flight :
       \E outcome \in OutcomesOf(c.method) :
         solana_client' =
           [in_flight |-> solana_client.in_flight \ {c},
            replies |-> solana_client.replies \cup
              {[caller |-> c.caller, method |-> c.method, outcome |-> outcome,
                seq |-> Cardinality(solana_client.replies) + 1]}]
  /\ UNCHANGED <<slots, decodeVars, callVars, voteVars, fetchVars, apiVars>>

\* the coroutine of slot i resumes once its call has been answered
Resume(i) ==
  /\ slots[i].pc = "awaiting"
  /\ \E r \in solana_client.replies : r.caller = i
  /\ slots' = [slots EXCEPT
       ![i].pc = "done",
       ![i].result = SecondSegment(slots[i],
                       ReplyFor(solana_client, i, MethodOf(slots[i].kind)).outcome)]
  /\ UNCHANGED <<solana_client, decodeVars, callVars, voteVars, fetchVars, apiVars>>

NextConcurrent ==
  \/ \E i \in Slots : Start(i)
  \/ ProviderReplies
  \/ \E i \in Slots : Resume(i)
SpecConcurrent == InitConcurrent /\ [][NextConcurrent]_vars

\* what the provider answered to the call of slot i, if it made one
Answered(i) == \E r \in solana_client.replies : r.caller = i
OwnReply(i) == CHOOSE r \in solana_client.replies : r.caller = i
OwnOutcome(i) == IF Answered(i) THEN OwnReply(i).outcome ELSE [kind |-> "none"]
\* the result of the request of slot s served alone
Alone(s, outcome) ==
  CASE s.kind = "vote" -> prepare_vote_transaction(s.input, outcome)
    [] s.kind = "fetch" -> fetch_proposal_data(s.input, outcome, s.now)
    [] s.kind = "decode" -> parse_proposal_v2_account(s.input, s.now)

THIRD_MOCK_ADDRESS ==
  <<52, 118, 74, 57, 74, 85, 49, 98, 74, 74, 69, 57, 54, 70, 87, 83, 74, 75,
  118, 72, 115, 109, 109, 70, 65, 68, 67, 103, 52, 103, 112, 90, 81, 102,
  102, 52, 80, 51, 98, 107, 76, 75, 105>>

DaoAddresses ==
  {TEST_WALLET_ADDRESS, TEST_PROPOSAL_ADDRESS, GOVERNANCE_PROGRAM_ADDRESS,
   NOT_AN_ADDRESS, SHORT_ADDRESS}
\* ProposalInfo(address, title, description, state, created_at)
ProposalInfo(address, title, state, now) ==
  [address |-> address, title |-> title, state |-> state,
   created_at |-> Some(isoformat(U64(now)))]
\* the list built in lines 556-578, the three readings of the clock giving
\* `now`; titles are kept as their text, descriptions left out
mock_proposals(now) ==
  << ProposalInfo(TEST_PROPOSAL_ADDRESS,
                  "Treasury Diversification Strategy", "Voting", now),
     ProposalInfo(TEST_WALLET_ADDRESS,
                  "Community Developer Grant Program", "Draft", now),
     ProposalInfo(THIRD_MOCK_ADDRESS,
                  "Governance Parameter Updates", "Succeeded", now) >>
\* get_dao_proposals_from_chain: the mock list, or [] from its except
\* clause (lines 582-584)
get_dao_proposals_from_chain(lib, now) ==
  IF lib = "raises" THEN <<>> ELSE mock_proposals(now)
DAOProposalsResponse(dao_address, proposals) ==
  [status_code |-> 200, dao_address |-> dao_address, proposals |-> proposals]
\* (mutant: no `except HTTPException: raise`, every exception becomes 500)
DaoHandle_AllServerError(exc) ==
  ErrorResponse(500, "Failed to fetch DAO proposals")
\* lines 611-615
DaoHandle(exc) ==
  IF exc.kind = "HTTPException"
  THEN ErrorResponse(exc.status_code, exc.detail)
  ELSE ErrorResponse(500, "Failed to fetch DAO proposals")

InitDao ==
  /\ \E address \in DaoAddresses :
       dao = [pc |-> "validate", dao_address |-> address, chain_queries |-> 0,
              response |-> Pending]
  /\ analysis = Idle
  /\ IdleDecode /\ IdleCall /\ IdleVote /\ IdleFetch /\ IdleConc

\* lines 598-602
ValidateDaoAddress ==
  /\ dao.pc = "validate"
  /\ IF PubkeyParses(dao.dao_address)
     THEN dao' = [dao EXCEPT !.pc = "fetch"]
     ELSE dao' = [dao EXCEPT !.pc = "done", !.response =
                    DaoHandle(HTTPException(400, "Invalid DAO address"))]
  /\ UNCHANGED <<analysis, decodeVars, callVars, voteVars, fetchVars, concVars>>

\* lines 605-610
FetchDaoProposals ==
  /\ dao.pc = "fetch"
  /\ \E lib \in LibraryOutcomes, now \in Nows :
       dao' = [dao EXCEPT
                 !.pc = "done",
                 !.chain_queries = @ + 1,
                 !.response = DAOProposalsResponse(dao.dao_address,
                                get_dao_proposals_from_chain(lib, now))]
  /\ UNCHANGED <<analysis, decodeVars, callVars, voteVars, fetchVars, concVars>>

\* ------------------------------------------------------------------------
\* analyze_proposal: fetch_proposal_data, call_juliaos_swarm, the response
\* ------------------------------------------------------------------------
\* "treasury", "funding", "grant", "budget", "token", "payment"
FINANCIAL_WORDS ==
  { <<116, 114, 101, 97, 115, 117, 114, 121>>,
    <<102, 117, 110, 100, 105, 110, 103>>,
    <<103, 114, 97, 110, 116>>,
    <<98, 117, 100, 103, 101, 116>>,
    <<116, 111, 107, 101, 110>>,
    <<112, 97, 121, 109, 101, 110, 116>> }
\* "upgrade", "development", "protocol", "smart contract", "implementation"
TECHNICAL_WORDS ==
  { <<117, 112, 103, 114, 97, 100, 101>>,
    <<100, 101, 118, 101, 108, 111, 112, 109, 101, 110, 116>>,
    <<112, 114, 111, 116, 111, 99, 111, 108>>,
    <<115, 109, 97, 114, 116, 32, 99, 111, 110, 116, 114, 97, 99, 116>>,
    <<105, 109, 112, 108, 101, 109, 101, 110, 116, 97, 116, 105, 111, 110>> }
\* "governance", "voting", "council", "member", "authority"
GOVERNANCE_WORDS ==
  { <<103, 111, 118, 101, 114, 110, 97, 110, 99, 101>>,
    <<118, 111, 116, 105, 110, 103>>,
    <<99, 111, 117, 110, 99, 105, 108>>,
    <<109, 101, 109, 98, 101, 114>>,
    <<97, 117, 116, 104, 111, 114, 105, 116, 121>> }

\* `word in text`
Contains(text, word) ==
  \E i \in 1..(Len(text) - Len(word) + 1) :
    SubSeq(text, i, i + Len(word) - 1) = word
\* any(word in text for word in words)
AnyWordIn(text, wordset) == \E word \in wordset : Contains(text, word)

\* the four sections of an analysis
Sections ==
  {"financial_analysis", "technical_analysis", "sentiment_analysis",
   "aggregated_summary"}

\* lines 385-446; overall_score is kept in tenths (7.0 is 70)
mock_analysis(proposal_data) ==
  LET text == Lower(proposal_data.title) \o Lower(proposal_data.description)
      is_financial == AnyWordIn(text, FINANCIAL_WORDS)
      is_technical == AnyWordIn(text, TECHNICAL_WORDS)
      is_governance == AnyWordIn(text, GOVERNANCE_WORDS)
      financial_risk == IF is_financial THEN "High" ELSE "Medium"
      technical_complexity == IF is_technical THEN "High" ELSE "Low"
      overall_score == 70 + (IF is_financial THEN 5 ELSE 0)
                          + (IF is_technical THEN 5 ELSE 0)
                          - (IF is_governance THEN 5 ELSE 0)
  IN  [ financial_analysis |->
          [ treasury_impact |-> financial_risk,
            roi_assessment |-> IF overall_score > 70 THEN "Positive"
                               ELSE "Neutral",
            risk_level |-> financial_risk,
            recommendations |->
              << IF is_financial THEN "Monitor spending closely"
                 ELSE "Minimal financial impact",
                 "Set clear milestones", "Ensure community oversight" >> ],
        technical_analysis |->
          [ complexity |-> technical_complexity,
            security_risks |->
              << IF is_technical THEN "Smart contract upgrades"
                 ELSE "Standard governance risks",
                 "Multi-sig requirements",
                 IF is_technical THEN "Code review needed"
                 ELSE "Administrative review needed" >>,
            feasibility |-> IF ~is_technical THEN "High" ELSE "Medium",
            timeline |-> IF ~is_technical THEN "1-3 months"
                         ELSE "3-6 months" ],
        sentiment_analysis |->
          [ tone |-> "Professional",
            clarity |-> IF Len(proposal_data.description) > 50 THEN "High"
                        ELSE "Medium",
            potential_reception |-> IF overall_score > 70 THEN "Positive"
                                    ELSE "Mixed",
            contentious_points |->
              << IF is_financial THEN Some("Budget allocation") ELSE None,
                 IF is_technical THEN Some("Technical implementation")
                 ELSE None >> ],
        aggregated_summary |->
          [ overall_score |-> overall_score,
            recommendation |-> IF overall_score > 70
                               THEN "Approve with conditions"
                               ELSE "Needs revision",
            key_considerations |->
              << IF is_financial THEN "Monitor high treasury impact"
                 ELSE "Minimal financial impact",
                 IF is_technical THEN "Ensure high technical feasibility"
                 ELSE "Standard implementation",
                 IF overall_score > 70 THEN "Positive community engagement"
                 ELSE "Address community concerns" >> ] ]

\* what the JuliaOS backend can answer to the POST of lines 367-370: a
\* response with a status and, if its body is JSON, the parsed body; a
\* refused connection; any other error of the client (a timeout)
BackendSection == [summary |-> "from JuliaOS"]
BackendBodies ==
  { [ financial_analysis |-> BackendSection,
      technical_analysis |-> BackendSection,
      sentiment_analysis |-> BackendSection,
      aggregated_summary |-> BackendSection ],
    [ financial_analysis |-> BackendSection,
      technical_analysis |-> BackendSection,
      sentiment_analysis |-> BackendSection ],
    [ result |-> BackendSection ],
    [ error |-> "unknown strategy" ] }
BackendOutcomes ==
  {[kind |-> "response", status_code |-> 200, json |-> Some(b)] :
     b \in BackendBodies}
    \cup {[kind |-> "response", status_code |-> s, json |-> None] :
            s \in {200, 404, 500}}
    \cup {[kind |-> k, status_code |-> 0, json |-> None] :
            k \in {"ConnectError", "TimeoutException"}}

\* lines 351-449: the body of a 200 response as it is, or the mock
\* analysis; response.json() on a body that is not JSON raises into the
\* `except Exception` of line 381
call_juliaos_swarm(proposal_data, backend) ==
  IF /\ backend.kind = "response"
     /\ backend.status_code = 200
     /\ backend.json # None
  THEN backend.json[1]
  ELSE mock_analysis(proposal_data)

\* lines 468-476; a missing key raises KeyError, which no handler of the
\* application catches: the framework answers 500
ProposalAnalysisResponse(proposal_address, proposal_data, analysis_results) ==
  IF Sections \subseteq DOMAIN analysis_results
  THEN [ status_code |-> 200,
         proposal_address |-> proposal_address,
         proposal_title |-> proposal_data.title,
         proposal_description |-> proposal_data.description,
         financial_analysis |-> analysis_results.financial_analysis,
         technical_analysis |-> analysis_results.technical_analysis,
         sentiment_analysis |-> analysis_results.sentiment_analysis,
         aggregated_summary |-> analysis_results.aggregated_summary ]
  ELSE ErrorResponse(500, "Internal Server Error")

\* "Token Upgrade"
TITLE_TOKEN_UPGRADE ==
  <<84, 111, 107, 101, 110, 32, 85, 112, 103, 114, 97, 100, 101>>
\* "Council seats"
TITLE_COUNCIL ==
  <<67, 111, 117, 110, 99, 105, 108, 32, 115, 101, 97, 116, 115>>
\* "https://example.org/proposals/protocol-development-plan"
LONG_DESCRIPTION_LINK ==
  <<104, 116, 116, 112, 115, 58, 47, 47, 101, 120, 97, 109, 112, 108, 101,
  46, 111, 114, 103, 47, 112, 114, 111, 112, 111, 115, 97, 108, 115, 47,
  112, 114, 111, 116, 111, 99, 111, 108, 45, 100, 101, 118, 101, 108, 111,
  112, 109, 101, 110, 116, 45, 112, 108, 97, 110>>

AnalysisBuffers ==
  {Encode([BaseKnown EXCEPT !.name = n, !.description_link = d]) :
     n \in {BaseKnown.name, TITLE_TOKEN_UPGRADE, TITLE_COUNCIL},
     d \in {<<>>, LONG_DESCRIPTION_LINK}}
    \cup {SubSeq(Encode(BaseKnown), 1, cut) : cut \in {4, 100}}
AnalysisAccountOutcomes ==
  {[kind |-> k, data |-> <<>>] : k \in {"raises", "no_account"}}
    \cup {[kind |-> "account", data |-> d] : d \in AnalysisBuffers}
AnalysisAddresses == {TEST_PROPOSAL_ADDRESS, NOT_AN_ADDRESS}

InitAnalyze ==
  /\ \E address \in AnalysisAddresses :
       analysis = [pc |-> "fetch", proposal_address |-> address,
                   calls |-> <<>>, proposal_data |-> NoRequest,
                   analysis_results |-> NoRequest, response |-> Pending]
  /\ dao = Idle
  /\ IdleDecode /\ IdleCall /\ IdleVote /\ IdleFetch /\ IdleConc

\* line 463
AnalyzeFetch ==
  /\ analysis.pc = "fetch"
  /\ \E outcome \in AnalysisAccountOutcomes, now \in Nows :
       LET fetch == fetch_proposal_data(analysis.proposal_address,
                                        outcome, now)
       IN  IF fetch.kind = "returned"
           THEN analysis' = [analysis EXCEPT
                  !.pc = "swarm",
                  !.calls = Append(@, "fetch_proposal_data"),
                  !.proposal_data = fetch.value]
           ELSE analysis' = [analysis EXCEPT
                  !.pc = "done",
                  !.calls = Append(@, "fetch_proposal_data"),
                  !.response = ErrorResponse(500, "Internal Server Error")]
  /\ UNCHANGED <<dao, decodeVars, callVars, voteVars, fetchVars, concVars>>

\* line 466
AnalyzeSwarm ==
  /\ analysis.pc = "swarm"
  /\ \E backend \in BackendOutcomes :
       analysis' = [analysis EXCEPT
         !.pc = "respond",
         !.calls = Append(@, "call_juliaos_swarm"),
         !.analysis_results =
            call_juliaos_swarm(analysis.proposal_data, backend)]
  /\ UNCHANGED <<dao, decodeVars, callVars, voteVars, fetchVars, concVars>>

\* lines 468-476
AnalyzeRespond ==
  /\ analysis.pc = "respond"
  /\ analysis' = [analysis EXCEPT
       !.pc = "done",
       !.response = ProposalAnalysisResponse(analysis.proposal_address,
                      analysis.proposal_data, analysis.analysis_results)]
  /\ UNCHANGED <<dao, decodeVars, callVars, voteVars, fetchVars, concVars>>

InitApi == InitDao \/ InitAnalyze
NextApi ==
  \/ ValidateDaoAddress
  \/ FetchDaoProposals
  \/ AnalyzeFetch
  \/ AnalyzeSwarm
  \/ AnalyzeRespond
SpecApi == InitApi /\ [][NextApi]_vars

\* C24: a DAO address that parses as a public key is answered with
\* success, the same dao_address and a list of proposals; one that does
\* not parse is answered 400 'Invalid DAO address' without any query for
\* proposals
C24_DaoProposals ==
  dao.pc = "done" =>
    IF PubkeyParses(dao.dao_address)
    THEN /\ dao.response.status_code = 200
         /\ dao.response.dao_address = dao.dao_address
         /\ \A i \in DOMAIN dao.response.proposals :
              DOMAIN dao.response.proposals[i] =
                {"address", "title", "state", "created_at"}
    ELSE /\ dao.response = ErrorResponse(400, "Invalid DAO address")
         /\ dao.chain_queries = 0
C24_Witness ==
  /\ dao.pc = "done"
  /\ ~PubkeyParses(dao.dao_address)
  /\ dao.response.status_code = 400
C24_WitnessSuccess ==
  /\ dao.pc = "done"
  /\ PubkeyParses(dao.dao_address)
  /\ Len(dao.response.proposals) = 3

\* C25: analyze_proposal fetches the proposal data, then calls the swarm
\* analysis, and for every outcome of the backend call answers with the
\* requested proposal_address, the fetched title and description and all
\* four analysis sections
C25_AnalysisComplete ==
  analysis.pc = "done" =>
    /\ analysis.calls = <<"fetch_proposal_data", "call_juliaos_swarm">>
    /\ analysis.response.status_code = 200
    /\ analysis.response.proposal_address = analysis.proposal_address
    /\ analysis.response.proposal_title = analysis.proposal_data.title
    /\ analysis.response.proposal_description =
         analysis.proposal_data.description
    /\ Sections \subseteq DOMAIN analysis.response

====
